---- MODULE Spec2Model ----
(***************************************************************************)
(* Resume-Analytica scoring engine (backend/scoring.py) and the wiring of  *)
(* the /analyze orchestrator (backend/main.py) that feeds it.              *)
(*                                                                         *)
(* Number representation.  Python floats are modelled by exact rationals:  *)
(*   - a ratio is a pair <<n, d>> with d > 0;                              *)
(*   - a reported component (round(x, 3)) is an integer count of           *)
(*     thousandths, so 333 stands for 0.333 and -50 for -0.05;             *)
(*   - a sub-bonus or context bonus is an integer count of thousandths;    *)
(*   - a similarity is a record [kind, val] whose val counts               *)
(*     ten-thousandths when kind = "num".                                  *)
(* Texts are strings; substring tests, lowercasing and the regular         *)
(* expressions are computed character by character.                        *)
(***************************************************************************)
EXTENDS Integers, Sequences, FiniteSets, TLC

(***************************************************************************)
(* Bounds                                                                  *)
(***************************************************************************)
MaxKw == 3          \* longest keyword list handed to compute_score
MaxYear == 2025     \* last calendar year the clock reaches
MaxMissing == 2     \* longest enumerated missing-keyword list of a suggestion call
MaxCalls == 2       \* calls of generate_suggestions in one process
MaxCompares == 2    \* calls of semantic_compare in one process

(***************************************************************************)
(* Characters and strings                                                  *)
(***************************************************************************)
Ch(s, i) == SubSeq(s, i, i)

UpperLetters ==
  <<"A","B","C","D","E","F","G","H","I","J","K","L","M",
    "N","O","P","Q","R","S","T","U","V","W","X","Y","Z">>
LowerLetters ==
  <<"a","b","c","d","e","f","g","h","i","j","k","l","m",
    "n","o","p","q","r","s","t","u","v","w","x","y","z">>

\* one character of str.lower()
LowerChar(c) ==
  IF \E k \in 1..26 : UpperLetters[k] = c
    THEN LowerLetters[CHOOSE k \in 1..26 : UpperLetters[k] = c]
    ELSE c

RECURSIVE LowerFrom(_, _)
LowerFrom(s, i) ==
  IF i > Len(s) THEN "" ELSE LowerChar(Ch(s, i)) \o LowerFrom(s, i + 1)

\* str.lower()
Lower(s) == LowerFrom(s, 1)

\* s[i:].startswith(lit), 1-based
StartsAt(s, i, lit) ==
  /\ i >= 1
  /\ i + Len(lit) - 1 <= Len(s)
  /\ SubSeq(s, i, i + Len(lit) - 1) = lit

\* Python's  sub in s
Contains(sub, s) == \E i \in 1..(Len(s) - Len(sub) + 1) : StartsAt(s, i, sub)

\* any(indicator in text for indicator in indicators)
AnyIn(indicators, text) ==
  \E k \in DOMAIN indicators : Contains(indicators[k], text)

Digits == <<"0","1","2","3","4","5","6","7","8","9">>
IsDigit(c) == \E k \in 1..10 : Digits[k] = c
DigitVal(c) == (CHOOSE k \in 1..10 : Digits[k] = c) - 1
\* regex \s on the characters the texts use
IsSpace(c) == c \in {" ", "\t", "\n", "\r", "\f"}

\* index just past the longest run of digits starting at i (regex \d+ / \d*)
RECURSIVE DigitsEnd(_, _)
DigitsEnd(s, i) ==
  IF i <= Len(s) /\ IsDigit(Ch(s, i)) THEN DigitsEnd(s, i + 1) ELSE i

\* index just past the longest run of whitespace starting at i (regex \s*)
RECURSIVE SpaceEnd(_, _)
SpaceEnd(s, i) ==
  IF i <= Len(s) /\ IsSpace(Ch(s, i)) THEN SpaceEnd(s, i + 1) ELSE i

\* str.strip()
RECURSIVE StripLeft(_)
StripLeft(s) ==
  IF Len(s) > 0 /\ IsSpace(Ch(s, 1)) THEN StripLeft(SubSeq(s, 2, Len(s))) ELSE s
RECURSIVE StripRight(_)
StripRight(s) ==
  IF Len(s) > 0 /\ IsSpace(Ch(s, Len(s)))
    THEN StripRight(SubSeq(s, 1, Len(s) - 1)) ELSE s
Strip(s) == StripRight(StripLeft(s))

\* int(match) for a string of decimal digits
RECURSIVE ParseInt(_)
ParseInt(s) ==
  IF Len(s) = 0 THEN 0
  ELSE 10 * ParseInt(SubSeq(s, 1, Len(s) - 1)) + DigitVal(Ch(s, Len(s)))

(***************************************************************************)
(* Regular expressions of _extract_years_bonus.  A pattern is named by its *)
(* source text; MatchAt gives the match that starts at index i as          *)
(* [end, g1, g2] (end = index just past the match, 0 when there is none).  *)
(* Each pattern is deterministic: every greedy choice is forced by the     *)
(* character that follows it, so the first successful parse is the only    *)
(* one.                                                                    *)
(***************************************************************************)
ReYearsExperience == "(\\d+)\\+?\\s*years?\\s+(?:of\\s+)?experience"
ReYearsInWith     == "(\\d+)\\+?\\s*years?\\s+(?:in|with)"
ReMinimumYears    == "minimum\\s+(\\d+)\\s+years?"
ReAtLeastYears    == "at\\s+least\\s+(\\d+)\\s+years?"
ReDateRangeNoEnd  == "(\\d{4})\\s*-\\s*(?:present|current|\\d{4})"
ReDateRange       == "(\\d{4})\\s*-\\s*(?:present|current|(\\d{4}))"

NoMatch == [end |-> 0, g1 |-> "", g2 |-> ""]

\* years?  at index q: index just past it, 0 when absent
YearsWordEnd(s, q) ==
  IF ~StartsAt(s, q, "year") THEN 0
  ELSE IF StartsAt(s, q + 4, "s") THEN q + 5 ELSE q + 4

\* (\d+)\+?\s*years?\s+   at index i: [end, g1] with end = 0 when absent
CountYearsPrefix(s, i) ==
  LET d == DigitsEnd(s, i)
      p == IF StartsAt(s, d, "+") THEN d + 1 ELSE d
      y == YearsWordEnd(s, SpaceEnd(s, p))
      w == SpaceEnd(s, y)
  IN IF d > i /\ y > 0 /\ w > y
       THEN [end |-> w, g1 |-> SubSeq(s, i, d - 1)]
       ELSE [end |-> 0, g1 |-> ""]

\* <word>\s+(\d+)\s+years?   with the words before the count already matched
\* up to (not including) index a, where the \s+ before the count starts
WordCountYears(s, a) ==
  LET b == SpaceEnd(s, a)
      d == DigitsEnd(s, b)
      c == SpaceEnd(s, d)
      y == YearsWordEnd(s, c)
  IN IF b > a /\ d > b /\ c > d /\ y > 0
       THEN [end |-> y, g1 |-> SubSeq(s, b, d - 1), g2 |-> ""]
       ELSE NoMatch

\* four digits exactly at index i
FourDigits(s, i) ==
  /\ i + 3 <= Len(s)
  /\ \A k \in i..(i + 3) : IsDigit(Ch(s, k))

\* (\d{4})\s*-\s*(?:present|current|(\d{4}))  (capture = TRUE) or the same
\* with a non-capturing end year
DateRangeAt(s, i, capture) ==
  IF ~FourDigits(s, i) THEN NoMatch
  ELSE
    LET a == SpaceEnd(s, i + 4)
        b == SpaceEnd(s, a + 1)
    IN IF ~StartsAt(s, a, "-") THEN NoMatch
       ELSE IF StartsAt(s, b, "present")
         THEN [end |-> b + 7, g1 |-> SubSeq(s, i, i + 3), g2 |-> ""]
       ELSE IF StartsAt(s, b, "current")
         THEN [end |-> b + 7, g1 |-> SubSeq(s, i, i + 3), g2 |-> ""]
       ELSE IF FourDigits(s, b)
         THEN [end |-> b + 4, g1 |-> SubSeq(s, i, i + 3),
               g2 |-> IF capture THEN SubSeq(s, b, b + 3) ELSE ""]
       ELSE NoMatch

MatchAt(pattern, s, i) ==
  CASE pattern = ReYearsExperience ->
         LET m == CountYearsPrefix(s, i)
             o == SpaceEnd(s, m.end + 2)
         IN IF m.end = 0 THEN NoMatch
            ELSE IF /\ StartsAt(s, m.end, "of")
                    /\ o > m.end + 2
                    /\ StartsAt(s, o, "experience")
              THEN [end |-> o + 10, g1 |-> m.g1, g2 |-> ""]
            ELSE IF StartsAt(s, m.end, "experience")
              THEN [end |-> m.end + 10, g1 |-> m.g1, g2 |-> ""]
            ELSE NoMatch
    [] pattern = ReYearsInWith ->
         LET m == CountYearsPrefix(s, i)
         IN IF m.end = 0 THEN NoMatch
            ELSE IF StartsAt(s, m.end, "in")
              THEN [end |-> m.end + 2, g1 |-> m.g1, g2 |-> ""]
            ELSE IF StartsAt(s, m.end, "with")
              THEN [end |-> m.end + 4, g1 |-> m.g1, g2 |-> ""]
            ELSE NoMatch
    [] pattern = ReMinimumYears ->
         IF StartsAt(s, i, "minimum") THEN WordCountYears(s, i + 7)
         ELSE NoMatch
    [] pattern = ReAtLeastYears ->
         LET a == SpaceEnd(s, i + 2)
         IN IF StartsAt(s, i, "at") /\ a > i + 2 /\ StartsAt(s, a, "least")
              THEN WordCountYears(s, a + 5)
              ELSE NoMatch
    [] pattern = ReDateRangeNoEnd -> DateRangeAt(s, i, FALSE)
    [] pattern = ReDateRange -> DateRangeAt(s, i, TRUE)

\* re.findall(pattern, s): the non-overlapping matches, leftmost first, as a
\* sequence of [end, g1, g2]
RECURSIVE FindAllFrom(_, _, _)
FindAllFrom(pattern, s, i) ==
  IF i > Len(s) THEN <<>>
  ELSE LET m == MatchAt(pattern, s, i)
       IN IF m.end = 0 THEN FindAllFrom(pattern, s, i + 1)
          ELSE <<m>> \o FindAllFrom(pattern, s, m.end)

FindAll(pattern, s) == FindAllFrom(pattern, s, 1)

\* max() of a non-empty sequence of integers
SeqMax(q) == CHOOSE m \in {q[k] : k \in DOMAIN q} : \A k \in DOMAIN q : q[k] <= m

\* [int(match) for match in matches]
IntsOf(matches) == [k \in DOMAIN matches |-> ParseInt(matches[k].g1)]

\* the concatenation of a sequence of sequences (list.extend in a loop)
RECURSIVE Flatten(_)
Flatten(qs) == IF qs = <<>> THEN <<>> ELSE Head(qs) \o Flatten(Tail(qs))

(***************************************************************************)
(* Python values.  An argument that the code expects to be a string, a     *)
(* list or a number may be None; an operation that raises is modelled by   *)
(* the flag it sets, and each try/except by the test of that flag.         *)
(***************************************************************************)
PyStr(s) == [type |-> "str", val |-> s]
NoneStr == [type |-> "NoneType", val |-> ""]
PyList(q) == [type |-> "list", val |-> q]
NoneList == [type |-> "NoneType", val |-> <<>>]
\* a float given in ten-thousandths, float('nan'), and None
PyFloat(v) == [type |-> "float", val |-> v]
NaN == [type |-> "nan", val |-> 0]
NoneNum == [type |-> "NoneType", val |-> 0]

\* max(lo, min(hi, x)) on integers
Clamp(lo, hi, x) == IF x < lo THEN lo ELSE IF x > hi THEN hi ELSE x

\* the value of an expression that is evaluated once and then used by name,
\* as the target of a Python assignment is: S holds that one value
TheOnly(S) == CHOOSE v \in S : TRUE

(***************************************************************************)
(* _extract_years_bonus.  The texts are strings here (a None text has      *)
(* already failed in the caller).  Result in thousandths.  now_year is     *)
(* datetime.now().year, read from the clock at the time of the call.       *)
(***************************************************************************)
jd_years_patterns ==
  <<ReYearsExperience, ReYearsInWith, ReMinimumYears, ReAtLeastYears>>
resume_years_patterns == <<ReYearsExperience, ReDateRangeNoEnd>>

\* the spans with every range taken to end in the current year
RECURSIVE SpansOf_EndIsNow(_, _)
SpansOf_EndIsNow(date_ranges, current_year) ==
  IF date_ranges = <<>> THEN <<>>
  ELSE LET m == Head(date_ranges)
           start == ParseInt(m.g1)
           end == current_year
       IN (IF end > start /\ start > 1990 THEN <<end - start>> ELSE <<>>)
            \o SpansOf_EndIsNow(Tail(date_ranges), current_year)

\* the spans with the sanity check admitting a start in 1990
RECURSIVE SpansOf_Since1990(_, _)
SpansOf_Since1990(date_ranges, current_year) ==
  IF date_ranges = <<>> THEN <<>>
  ELSE LET m == Head(date_ranges)
           start == ParseInt(m.g1)
           end == IF m.g2 # "" THEN ParseInt(m.g2) ELSE current_year
       IN (IF end > start /\ start >= 1990 THEN <<end - start>> ELSE <<>>)
            \o SpansOf_Since1990(Tail(date_ranges), current_year)

\* the spans end - start of the date ranges that pass the sanity check
RECURSIVE SpansOf(_, _)
SpansOf(date_ranges, current_year) ==
  IF date_ranges = <<>> THEN <<>>
  ELSE LET m == Head(date_ranges)
           start == ParseInt(m.g1)
           end == IF m.g2 # "" THEN ParseInt(m.g2) ELSE current_year
       IN (IF end > start /\ start > 1990 THEN <<end - start>> ELSE <<>>)
            \o SpansOf(Tail(date_ranges), current_year)

jd_years_of(jd_text) ==
  Flatten([k \in DOMAIN jd_years_patterns |->
             IntsOf(FindAll(jd_years_patterns[k], Lower(jd_text)))])

\* resume_years after the loop over resume_years_patterns: the counts of
\* the patterns that hold the word experience
resume_mentions_of(resume_text) ==
  Flatten([k \in DOMAIN resume_years_patterns |->
             IF Contains("experience", resume_years_patterns[k])
               THEN IntsOf(FindAll(resume_years_patterns[k], Lower(resume_text)))
               ELSE <<>>])

\* date_ranges: the (start_year, end_year) pairs, end_year "" when open-ended
date_ranges_of(resume_text) == FindAll(ReDateRange, Lower(resume_text))

resume_years_of(resume_text, current_year) ==
  resume_mentions_of(resume_text)
    \o SpansOf(date_ranges_of(resume_text), current_year)

\* lines 215-227 with a strict comparison on line 224
YearsBonusOf_StrictClose(jd_years, resume_years) ==
  IF jd_years = <<>> \/ resume_years = <<>> THEN 0
  ELSE LET jd_max_years == SeqMax(jd_years)
           resume_max_years == SeqMax(resume_years)
       IN IF resume_max_years >= jd_max_years THEN 20
          ELSE IF 10 * resume_max_years > 7 * jd_max_years THEN 10
          ELSE -20

\* lines 215-227 on the two lists of year counts
YearsBonusOf(jd_years, resume_years) ==
  IF jd_years = <<>> \/ resume_years = <<>> THEN 0
  ELSE LET jd_max_years == SeqMax(jd_years)
           resume_max_years == SeqMax(resume_years)
       IN IF resume_max_years >= jd_max_years THEN 20
          \* resume_max_years >= jd_max_years * 0.7
          ELSE IF 10 * resume_max_years >= 7 * jd_max_years THEN 10
          ELSE -20

_extract_years_bonus(jd_text, resume_text, now_year) ==
  TheOnly({YearsBonusOf(jd_years, resume_years) :
             jd_years \in {jd_years_of(jd_text)},
             resume_years \in {resume_years_of(resume_text, now_year)}})

(***************************************************************************)
(* _compute_domain_alignment.  Result in thousandths.                      *)
(***************************************************************************)
domain_keywords ==
  << <<"finance", "banking", "trading", "payment", "fintech",
       "cryptocurrency", "blockchain">>,
     <<"healthcare", "medical", "hospital", "patient", "clinical", "pharma",
       "biotech">>,
     <<"ecommerce", "e-commerce", "retail", "shopping", "marketplace",
       "commerce">>,
     <<"saas", "b2b", "enterprise", "subscription", "platform">>,
     <<"gaming", "game", "unity", "unreal", "mobile games", "console">>,
     <<"security", "cybersecurity", "infosec", "penetration", "vulnerability",
       "encryption">>,
     <<"data science", "analytics", "big data", "machine learning", "ai",
       "ml">>,
     <<"mobile", "ios", "android", "react native", "flutter", "swift",
       "kotlin">> >>

\* the domains (by position in domain_keywords) present in a lowercased text
DomainsIn(text_lower) ==
  {d \in DOMAIN domain_keywords : AnyIn(domain_keywords[d], text_lower)}

\* lines 263-271 with no penalty for a resume that names no domain
DomainBonusOf_ResumeSilent(jd_domains, resume_domains) ==
  LET overlap == Cardinality(jd_domains \cap resume_domains)
  IN IF jd_domains = {} \/ resume_domains = {} THEN 0
     ELSE IF overlap > 0 THEN 20
     ELSE -10

\* lines 263-271 on the two sets of domains
DomainBonusOf(jd_domains, resume_domains) ==
  LET overlap == Cardinality(jd_domains \cap resume_domains)
  IN IF jd_domains = {} THEN 0
     ELSE IF overlap > 0 THEN 20
     ELSE -10

_compute_domain_alignment(jd_text, resume_text) ==
  TheOnly({DomainBonusOf(jd_domains, resume_domains) :
             jd_domains \in {DomainsIn(Lower(jd_text))},
             resume_domains \in {DomainsIn(Lower(resume_text))}})

(***************************************************************************)
(* _compute_context_bonus.  Arguments are Python values; result in         *)
(* thousandths.                                                            *)
(***************************************************************************)
junior_indicators_jd ==
  <<"junior", "entry", "entry-level", "graduate", "new grad", "0-2 years",
    "0-3 years", "early career", "associate", "bootcamp", "internship",
    "trainee">>
senior_indicators_jd ==
  <<"senior", "lead", "principal", "staff", "architect", "manager",
    "director", "5+ years", "3+ years", "experienced", "expert", "advanced">>
junior_indicators_resume ==
  <<"intern", "internship", "graduate", "bootcamp", "entry", "junior",
    "associate", "trainee", "apprentice", "recent graduate", "new to",
    "learning">>
senior_indicators_resume ==
  <<"lead", "senior", "principal", "manager", "director", "architect",
    "staff", "expert", "experienced", "mentored", "managed team", "led team",
    "supervised">>

\* lines 136-159 with the ambiguous branch contributing nothing
SeniorityBonus_AmbiguousZero(jd_is_junior, jd_is_senior, resume_is_junior, resume_is_senior) ==
  IF jd_is_junior /\ ~jd_is_senior THEN
    IF resume_is_junior /\ ~resume_is_senior THEN 80
    ELSE IF resume_is_senior THEN -50
    ELSE 20
  ELSE IF jd_is_senior /\ ~jd_is_junior THEN
    IF resume_is_senior THEN 80
    ELSE IF resume_is_junior THEN -80
    ELSE 0
  ELSE 0

\* lines 136-159 with line 150 asking for a resume that is senior only
SeniorityBonus_SeniorOnly(jd_is_junior, jd_is_senior, resume_is_junior, resume_is_senior) ==
  IF jd_is_junior /\ ~jd_is_senior THEN
    IF resume_is_junior /\ ~resume_is_senior THEN 80
    ELSE IF resume_is_senior THEN -50
    ELSE 20
  ELSE IF jd_is_senior /\ ~jd_is_junior THEN
    IF resume_is_senior /\ ~resume_is_junior THEN 80
    ELSE IF resume_is_junior THEN -80
    ELSE 0
  ELSE 20

\* lines 136-159
SeniorityBonus(jd_is_junior, jd_is_senior, resume_is_junior, resume_is_senior) ==
  IF jd_is_junior /\ ~jd_is_senior THEN
    IF resume_is_junior /\ ~resume_is_senior THEN 80
    ELSE IF resume_is_senior THEN -50
    ELSE 20
  ELSE IF jd_is_senior /\ ~jd_is_junior THEN
    IF resume_is_senior THEN 80
    ELSE IF resume_is_junior THEN -80
    ELSE 0
  ELSE 20

seniority_bonus_of(jd_text, resume_text) ==
  TheOnly({SeniorityBonus(jd_is_junior, jd_is_senior, resume_is_junior, resume_is_senior) :
             jd_is_junior \in {AnyIn(junior_indicators_jd, Lower(jd_text))},
             jd_is_senior \in {AnyIn(senior_indicators_jd, Lower(jd_text))},
             resume_is_junior \in {AnyIn(junior_indicators_resume, Lower(resume_text))},
             resume_is_senior \in {AnyIn(senior_indicators_resume, Lower(resume_text))}})

\* lines 167-169 without the cap
CombineBonuses_Uncapped(seniority_bonus, years_bonus, domain_bonus) ==
  seniority_bonus + years_bonus + domain_bonus

\* lines 167-169
CombineBonuses(seniority_bonus, years_bonus, domain_bonus) ==
  LET total_bonus == seniority_bonus + years_bonus + domain_bonus
  IN Clamp(-100, 100, total_bonus)

_compute_context_bonus(jd_text, resume_text, now_year) ==
  \* jd_text.lower() / resume_text.lower() raise AttributeError on None,
  \* which the except clause turns into 0.0
  IF jd_text.type # "str" \/ resume_text.type # "str" THEN 0
  ELSE TheOnly({CombineBonuses(seniority_bonus, years_bonus, domain_bonus) :
                  seniority_bonus \in {seniority_bonus_of(jd_text.val, resume_text.val)},
                  years_bonus \in {_extract_years_bonus(jd_text.val, resume_text.val, now_year)},
                  domain_bonus \in {_compute_domain_alignment(jd_text.val, resume_text.val)}})

(***************************************************************************)
(* Text inputs of a direct compute_score call, and the context bonus of    *)
(* every pair of them in every year, computed once.                        *)
(***************************************************************************)
JdTexts ==
  {PyStr("We build things"),
   PyStr("Staff engineer"),
   PyStr("Senior engineer, 5+ years experience in Fintech"),
   PyStr("Senior role, minimum 6 years"),
   PyStr("Junior developer for a mobile game"),
   NoneStr}

ResumeTexts ==
  {PyStr("I build things"),
   PyStr("Senior dev, led team, banking, 2019 - 2024"),
   PyStr("Intern with 1 year of experience"),
   PyStr("Developer 2019 - present"),
   PyStr("Junior Android developer"),
   NoneStr}

Years == 2024..MaxYear

\* the texts of the /analyze requests: job_description and resume_text
JobDescriptions ==
  {"", "  ", "We build things", "Python, AWS and Docker",
   "Senior Java developer, 3+ years experience"}
ResumeTextInputs ==
  {NoneStr, PyStr(""), PyStr("  "), PyStr(" I build things "),
   PyStr("I know Python"), PyStr("AWS, Docker, Python 2019 - present")}

ContextMemo ==
  {<<k, _compute_context_bonus(k[1], k[2], k[3])>> :
     k \in (JdTexts \X ResumeTexts \X Years)
           \cup ({PyStr(j) : j \in JobDescriptions}
                   \X {PyStr(Strip(r.val)) : r \in ResumeTextInputs} \X Years)}

\* line 51: the call of _compute_context_bonus
ContextBonusAt(jd_text, resume_text, now_year) ==
  (CHOOSE e \in ContextMemo : e[1] = <<jd_text, resume_text, now_year>>)[2]

(***************************************************************************)
(* Rational arithmetic for Python's float operations.  Python's round()    *)
(* rounds half to even, which is what a value that sits exactly on a tie   *)
(* gets.  The weighted score is a sum of float products, so when its exact *)
(* value is a tie the float carries a rounding error of unknown sign and   *)
(* round() goes the way of that error: the direction is a parameter        *)
(* (round_up), fixed by the operands of the sum.                           *)
(***************************************************************************)
\* round(n / d) for d > 0
RoundHalfEven(n, d) ==
  LET q == n \div d
      r == n % d
  IN IF 2 * r < d THEN q
     ELSE IF 2 * r > d THEN q + 1
     ELSE IF q % 2 = 0 THEN q ELSE q + 1

\* n / d is exactly halfway between two integers
IsTie(n, d) == 2 * (n % d) = d

\* round(x) for a float x whose exact value is n / d (d > 0) and whose
\* rounding error is positive iff round_up
RoundFloat(n, d, round_up) ==
  LET q == n \div d
      r == n % d
  IN IF 2 * r < d THEN q
     ELSE IF 2 * r > d THEN q + 1
     ELSE IF round_up THEN q + 1 ELSE q

\* round(x, 3) for x = r[1] / r[2], in thousandths
Round3(r) == RoundHalfEven(1000 * r[1], r[2])

(***************************************************************************)
(* compute_score.  Arguments are Python values; now_year is the clock      *)
(* value _extract_years_bonus reads during the call.                       *)
(***************************************************************************)
\* bool(x) for a list or None
Truthy(list) == list.type = "list" /\ Len(list.val) > 0

\* lines 33-36 with an empty keyword list counted as fully covered
RecallOf_EmptyIsFull(jd_keywords, found_keywords) ==
  IF Truthy(jd_keywords)
    THEN <<Len(found_keywords.val), Len(jd_keywords.val)>>
    ELSE <<1, 1>>

\* lines 33-36, as a ratio
RecallOf(jd_keywords, found_keywords) ==
  IF Truthy(jd_keywords)
    THEN <<Len(found_keywords.val), Len(jd_keywords.val)>>
    ELSE <<0, 1>>

\* lines 40-44, as a ratio
PrecisionOf(found_keywords, missing_keywords) ==
  LET total_extracted_keywords == Len(found_keywords.val) + Len(missing_keywords.val)
  IN IF total_extracted_keywords > 0
       THEN <<Len(found_keywords.val), total_extracted_keywords>>
       ELSE <<0, 1>>

\* line 48: max(0.0, min(1.0, semantic_similarity)), in ten-thousandths;
\* min(1.0, nan) is 1.0 because nan < 1.0 is false
SemanticOf(semantic_similarity) ==
  IF semantic_similarity.type = "nan" THEN 10000
  ELSE Clamp(0, 10000, semantic_similarity.val)

\* lines 62-67 weighting the values already rounded for the record
WeightedScore100_FromRecord(recall, precision, semantic_score, context_bonus) ==
  << 40 * Round3(recall) + 15 * Round3(precision)
       + 35 * Round3(<<semantic_score, 10000>>) + 10 * context_bonus,
     1000 >>

\* lines 62-67 times 100, as a ratio: recall and precision are ratios,
\* semantic_score counts ten-thousandths and context_bonus thousandths
WeightedScore100(recall, precision, semantic_score, context_bonus) ==
  << 400000 * recall[1] * precision[2]
       + 150000 * precision[1] * recall[2]
       + (35 * semantic_score + 100 * context_bonus) * recall[2] * precision[2],
     10000 * recall[2] * precision[2] >>

\* line 70 without the clamp to [0, 100]
FinalScoreOf_Unclamped(weighted100, round_up) ==
  RoundFloat(weighted100[1], weighted100[2], round_up)

\* line 70
FinalScoreOf(weighted100, round_up) ==
  Clamp(0, 100, RoundFloat(weighted100[1], weighted100[2], round_up))

\* lines 54-59
ComponentsOf(recall, precision, semantic_score, context_bonus) ==
  [recall |-> Round3(recall),
   precision |-> Round3(precision),
   semantic |-> Round3(<<semantic_score, 10000>>),
   context |-> Round3(<<context_bonus, 1000>>)]

\* lines 81-86
SafeDefaults ==
  [components |-> [recall |-> 0, precision |-> 0, semantic |-> 0, context |-> 0],
   final_score |-> 0]

\* no error reaches the except clause (None treated as empty or zero)
ScoreRaises_Never(jd_keywords, found_keywords, missing_keywords, semantic_similarity) ==
  FALSE

\* the try body raises: len(None) at line 34 or 40, min(1.0, None) at line 48
ScoreRaises(jd_keywords, found_keywords, missing_keywords, semantic_similarity) ==
  \/ Truthy(jd_keywords) /\ found_keywords.type # "list"
  \/ found_keywords.type # "list"
  \/ missing_keywords.type # "list"
  \/ semantic_similarity.type \notin {"float", "nan"}

\* lines 53-76 on the four values computed at lines 33-51
ScoreOf(recall, precision, semantic_score, context_bonus, round_up) ==
  [components |-> ComponentsOf(recall, precision, semantic_score, context_bonus),
   final_score |->
     FinalScoreOf(WeightedScore100(recall, precision, semantic_score, context_bonus),
                  round_up)]

compute_score(jd_keywords, found_keywords, missing_keywords, semantic_similarity, jd_text, resume_text, now_year, round_up) ==
  IF ScoreRaises(jd_keywords, found_keywords, missing_keywords, semantic_similarity)
    THEN SafeDefaults
  ELSE TheOnly({ScoreOf(recall, precision, semantic_score, context_bonus, round_up) :
                  recall \in {RecallOf(jd_keywords, found_keywords)},
                  precision \in {PrecisionOf(found_keywords, missing_keywords)},
                  semantic_score \in {SemanticOf(semantic_similarity)},
                  context_bonus \in {ContextBonusAt(jd_text, resume_text, now_year)}})

\* the directions the float error of the weighted score can take: both when
\* the exact value is a tie, otherwise it does not matter (FALSE)
\* the exact value of weighted_score * 100 is a tie
WeightedIsTie(recall, precision, semantic_score, context_bonus) ==
  \E w \in {WeightedScore100(recall, precision, semantic_score, context_bonus)} :
    IsTie(w[1], w[2])

RoundingDirections(jd_keywords, found_keywords, missing_keywords, semantic_similarity, jd_text, resume_text, now_year) ==
  IF ScoreRaises(jd_keywords, found_keywords, missing_keywords, semantic_similarity)
    THEN {FALSE}
  ELSE IF \E recall \in {RecallOf(jd_keywords, found_keywords)},
             precision \in {PrecisionOf(found_keywords, missing_keywords)},
             semantic_score \in {SemanticOf(semantic_similarity)},
             context_bonus \in {ContextBonusAt(jd_text, resume_text, now_year)} :
            WeightedIsTie(recall, precision, semantic_score, context_bonus)
    THEN BOOLEAN
  ELSE {FALSE}

(***************************************************************************)
(* Inputs.  compute_score reads only the lengths of its keyword lists, so  *)
(* the lists of a direct call range over slices of one keyword universe:   *)
(* jd and found over its prefixes, missing over the slices that start at   *)
(* its second keyword (Scenario A is jd = [python, aws, docker],           *)
(* found = [python], missing = [aws, docker]).  found may also be None.    *)
(***************************************************************************)
KwUniverse == <<"python", "aws", "docker", "sql", "react", "kafka">>

JdKeywordLists == {PyList(SubSeq(KwUniverse, 1, k)) : k \in 0..MaxKw}
FoundKeywordLists == JdKeywordLists \cup {NoneList}
MissingKeywordLists == {PyList(SubSeq(KwUniverse, 2, j)) : j \in 1..MaxKw}

\* 0, 0.028, 0.5, 1, two values outside [0,1], nan and None
SimilarityValues ==
  {PyFloat(0), PyFloat(280), PyFloat(5000), PyFloat(10000),
   PyFloat(-2500), PyFloat(15000), NaN, NoneNum}


(***************************************************************************)
(* get_score_explanation.  components maps a subset of the keys to         *)
(* thousandths; the result is the string the code builds.                  *)
(***************************************************************************)
\* components.get(key, 0)
Get(components, key) ==
  IF key \in DOMAIN components THEN components[key] ELSE 0

\* sep.join(items)
RECURSIVE Join(_, _)
Join(items, sep) ==
  IF items = <<>> THEN ""
  ELSE IF Len(items) = 1 THEN items[1]
  ELSE items[1] \o sep \o Join(Tail(items), sep)

\* lines 291-299 with strict comparisons
RecallClause_Strict(recall) ==
  IF recall > 800 THEN "Excellent keyword coverage"
  ELSE IF recall > 600 THEN "Good keyword coverage"
  ELSE IF recall > 400 THEN "Moderate keyword coverage"
  ELSE "Low keyword coverage"

\* lines 291-299
RecallClause(recall) ==
  IF recall >= 800 THEN "Excellent keyword coverage"
  ELSE IF recall >= 600 THEN "Good keyword coverage"
  ELSE IF recall >= 400 THEN "Moderate keyword coverage"
  ELSE "Low keyword coverage"

\* lines 302-308
SemanticClause(semantic) ==
  IF semantic >= 700 THEN "strong semantic alignment"
  ELSE IF semantic >= 500 THEN "moderate semantic alignment"
  ELSE "weak semantic alignment"

\* lines 311-315: the clauses appended for the context, none in the band
ContextClauses(context) ==
  IF context > 50 THEN <<"good seniority/domain fit">>
  ELSE IF context < -50 THEN <<"seniority/domain mismatch">>
  ELSE <<>>

\* the list  explanations  at line 317
ExplanationsOf(components) ==
  <<RecallClause(Get(components, "recall")),
    SemanticClause(Get(components, "semantic"))>>
    \o ContextClauses(Get(components, "context"))

get_score_explanation(components, score) ==
  "Score " \o ToString(score) \o "%: "
    \o Join(ExplanationsOf(components), ", ") \o "."

\* inputs of a call of get_score_explanation
ExplainRecalls == {0, 399, 400, 599, 600, 799, 800, 900}
ExplainSemantics == {0, 499, 500, 699, 700, 800}
ExplainContexts == {-100, -51, -50, 0, 50, 51, 60}
ExplainScores == {0, 85, 100}
ExplainComponents ==
  {[recall |-> r, semantic |-> m, context |-> c] :
     r \in ExplainRecalls, m \in ExplainSemantics, c \in ExplainContexts}
    \cup {[recall |-> r, precision |-> r, semantic |-> 500, context |-> 0] :
            r \in ExplainRecalls}
    \cup {[semantic |-> 800], [recall |-> 900]}

(***************************************************************************)
(* extract_keywords (nlp.py) and the orchestrator's wiring (main.py).      *)
(***************************************************************************)
\* characters of the keyword vocabulary in code-point order
CharOrder == " #+-./0123456789abcdefghijklmnopqrstuvwxyz"
Ord(c) == CHOOSE k \in 1..Len(CharOrder) : Ch(CharOrder, k) = c

\* Python's  a < b  on strings
RECURSIVE StrLess(_, _)
StrLess(a, b) ==
  IF Len(b) = 0 THEN FALSE
  ELSE IF Len(a) = 0 THEN TRUE
  ELSE IF Ch(a, 1) # Ch(b, 1) THEN Ord(Ch(a, 1)) < Ord(Ch(b, 1))
  ELSE StrLess(SubSeq(a, 2, Len(a)), SubSeq(b, 2, Len(b)))

\* sorted(q) by insertion
RECURSIVE Insert(_, _)
Insert(x, q) ==
  IF q = <<>> THEN <<x>>
  ELSE IF StrLess(Head(q), x) THEN <<Head(q)>> \o Insert(x, Tail(q))
  ELSE <<x>> \o q

RECURSIVE Sorted(_)
Sorted(q) == IF q = <<>> THEN <<>> ELSE Insert(Head(q), Sorted(Tail(q)))

\* list(S) for a set, in some order
RECURSIVE ListOfSet(_)
ListOfSet(S) ==
  IF S = {} THEN <<>>
  ELSE LET x == CHOOSE y \in S : TRUE IN <<x>> \o ListOfSet(S \ {x})

\* [x for x in q if Keep(x)]
RECURSIVE SelectKept(_, _)
SelectKept(q, kept) ==
  IF q = <<>> THEN <<>>
  ELSE (IF Head(q) \in kept THEN <<Head(q)>> ELSE <<>>) \o SelectKept(Tail(q), kept)

\* a selection of the 163 entries of TECHNICAL_SKILLS, in the order of the
\* source list; "java" is a substring of "javascript", "r" is one character
TECHNICAL_SKILLS ==
  <<"python", "java", "javascript", "r", "aws", "docker">>

\* _fallback_keyword_extraction: the keyword list (first component)
_fallback_keyword_extraction(text) ==
  LET text_lower == Lower(text)
      found_keywords ==
        SelectKept(TECHNICAL_SKILLS,
                   {TECHNICAL_SKILLS[k] : k \in {i \in DOMAIN TECHNICAL_SKILLS :
                        Contains(Lower(TECHNICAL_SKILLS[i]), text_lower)}})
  IN Sorted(found_keywords)

\* the sets of phrases the PhraseMatcher may report for a text: the library
\* decides by its tokenisation, the code keeps the lowercased, stripped span
\* texts longer than one character (lines 135-140)
MatcherKeywordSets ==
  {S \in SUBSET {TECHNICAL_SKILLS[k] : k \in DOMAIN TECHNICAL_SKILLS} :
     /\ Cardinality(S) <= MaxKw
     /\ \A w \in S : Len(w) > 1}

\* extract_keywords: the keyword list, given whether spaCy is usable and
\* does not raise (spacy_ok) and the set the matcher reports
extract_keywords(text, spacy_ok, matched) ==
  IF ~spacy_ok THEN _fallback_keyword_extraction(text)
  ELSE Sorted(ListOfSet(matched))

\* parse_resume for a request without a file: the extracted text
parse_resume(resume_text) ==
  IF resume_text.type # "str" THEN ""
  ELSE TheOnly({IF Len(stripped) > 0 THEN stripped ELSE "" :
                  stripped \in {Strip(resume_text.val)}})

\* lines 99-101
FoundIn(jd_keywords, raw_text) ==
  SelectKept(jd_keywords,
             {jd_keywords[k] : k \in {i \in DOMAIN jd_keywords :
                  Contains(Lower(jd_keywords[i]), Lower(raw_text))}})
\* line 101 testing against the text as typed instead of resume_lower
MissingIn_CaseSensitive(jd_keywords, raw_text) ==
  SelectKept(jd_keywords,
             {jd_keywords[k] : k \in {i \in DOMAIN jd_keywords :
                  ~Contains(Lower(jd_keywords[i]), raw_text)}})

MissingIn(jd_keywords, raw_text) ==
  SelectKept(jd_keywords,
             {jd_keywords[k] : k \in {i \in DOMAIN jd_keywords :
                  ~Contains(Lower(jd_keywords[i]), Lower(raw_text))}})

BadRequest == [status |-> 400]

\* analyze for a request without a file: the response, given the outcome of
\* keyword extraction and the similarity semantic_compare returns
\* lines 96-143 once raw_text is known
AnalyzeParsed(job_description, raw_text, jd_keywords, avg_similarity, now_year, round_up) ==
  IF Len(Strip(raw_text)) = 0 THEN BadRequest
  ELSE TheOnly({[status |-> 200,
                 score |-> scored.final_score,
                 components |-> scored.components,
                 keywords |-> [found |-> found_keywords,
                               missing |-> missing_keywords,
                               all_extracted_from_jd |-> jd_keywords]] :
                  found_keywords \in {FoundIn(jd_keywords, raw_text)},
                  missing_keywords \in {MissingIn(jd_keywords, raw_text)},
                  scored \in {compute_score(PyList(jd_keywords),
                                            PyList(FoundIn(jd_keywords, raw_text)),
                                            PyList(MissingIn(jd_keywords, raw_text)),
                                            avg_similarity, PyStr(job_description),
                                            PyStr(raw_text), now_year, round_up)}})

analyze(job_description, resume_text, spacy_ok, matched, avg_similarity, now_year, round_up) ==
  IF resume_text.type # "str" \/ Len(resume_text.val) = 0 THEN BadRequest
  ELSE IF Len(Strip(job_description)) = 0 THEN BadRequest
  ELSE TheOnly({AnalyzeParsed(job_description, raw_text, jd_keywords, avg_similarity,
                              now_year, round_up) :
                  raw_text \in {parse_resume(resume_text)},
                  jd_keywords \in {extract_keywords(job_description, spacy_ok, matched)}})

\* avg_similarity as semantic_compare returns it: a float in [0, 1]
AvgSimilarities == {PyFloat(0), PyFloat(280), PyFloat(10000)}

(***************************************************************************)
(* generate_suggestions (ai_opanai.py).  The chat-completion service is a  *)
(* collaborator: what it does with the prompt is an input of the model, a  *)
(* reply record [kind, content] with kind "raise" when the call or the     *)
(* prompt construction raises and kind "content" when it returns text      *)
(* (content "" stands for an empty or missing message content).            *)
(***************************************************************************)
\* q[:n]
Take(q, n) == SubSeq(q, 1, IF Len(q) < n THEN Len(q) ELSE n)

\* s.split(sep) for a one-character separator: the pieces between
\* consecutive occurrences of sep
RECURSIVE SplitFrom(_, _, _)
SplitFrom(s, sep, start) ==
  IF \E i \in start..Len(s) : Ch(s, i) = sep
    THEN TheOnly({<<SubSeq(s, start, cut - 1)>> \o SplitFrom(s, sep, cut + 1) :
                  cut \in {CHOOSE i \in start..Len(s) :
                             /\ Ch(s, i) = sep
                             /\ \A k \in start..(i - 1) : Ch(s, k) # sep}})
    ELSE <<SubSeq(s, start, Len(s))>>
Split(s, sep) == SplitFrom(s, sep, 1)

\* s.lstrip(chars)
RECURSIVE LStripChars(_, _)
LStripChars(s, chars) ==
  IF Len(s) > 0 /\ Contains(Ch(s, 1), chars)
    THEN LStripChars(SubSeq(s, 2, Len(s)), chars) ELSE s

\* the header prefixes of line 157
header_prefixes == <<"here", "suggestion", "improve">>
\* the characters line 161 strips from the left (the bullet sign U+2022,
\* also in the source's set, does not occur in the replies used here)
bullet_chars == "-*1234567890. "

\* what one line of the reply contributes: <<>> or one suggestion
ParseLine(raw_line) ==
  LET line == Strip(raw_line)
      body == LStripChars(line, bullet_chars)
  IN IF Len(line) = 0
          \/ \E k \in DOMAIN header_prefixes : StartsAt(Lower(line), 1, header_prefixes[k])
       THEN <<>>
     ELSE IF Len(body) < 20 THEN <<>>
     ELSE IF Ch(body, Len(body)) = ":" THEN <<SubSeq(body, 1, Len(body) - 1)>>
     ELSE <<body>>

RECURSIVE ParseLines(_)
ParseLines(lines) ==
  IF lines = <<>> THEN <<>> ELSE ParseLine(Head(lines)) \o ParseLines(Tail(lines))

_parse_suggestions(content) == ParseLines(Split(content, "\n"))

SetupSuggestion ==
  "Set OPENAI_API_KEY environment variable to enable AI-powered suggestions."
frontend_keywords == <<"react", "vue", "angular", "javascript", "typescript">>
FrontendSuggestion ==
  "Add frontend framework experience to your technical skills and project descriptions."
backend_keywords == <<"python", "java", "node.js", "go">>
BackendSuggestion ==
  "Highlight backend programming language experience in your work history."
cloud_keywords == <<"aws", "docker", "kubernetes", "ci/cd">>
CloudSuggestion ==
  "Include cloud and DevOps experience in your infrastructure work."
testing_keywords == <<"testing", "jest", "pytest", "tdd">>
TestingSuggestion ==
  "Add testing methodology experience to demonstrate code quality focus."
ConsiderPrefix ==
  "Consider incorporating these technologies in relevant project descriptions: "
QuantifySuggestion ==
  "Quantify your impact with specific metrics (e.g., 'Improved performance by 30%')."
ActionVerbsSuggestion ==
  "Use action verbs like 'Built', 'Implemented', 'Optimized', 'Led' to start bullet points."
AlignSuggestion ==
  "Align your technical language with the job description terminology."
ClosingSuggestions == <<QuantifySuggestion, ActionVerbsSuggestion, AlignSuggestion>>

\* any(k in group for k in top_missing)
AnyMember(group, top_missing) ==
  \E i \in DOMAIN top_missing, k \in DOMAIN group : top_missing[i] = group[k]

\* str(items) for a list of strings without quotes or escapes
RECURSIVE ReprItems(_)
ReprItems(items) ==
  IF items = <<>> THEN ""
  ELSE IF Len(items) = 1 THEN "'" \o items[1] \o "'"
  ELSE "'" \o items[1] \o "', " \o ReprItems(Tail(items))
StrOfList(items) == "[" \o ReprItems(items) \o "]"

\* [k for k in top_missing if k not in text]
RECURSIVE NotContainedIn(_, _)
NotContainedIn(top_missing, text) ==
  IF top_missing = <<>> THEN <<>>
  ELSE (IF Contains(Head(top_missing), text) THEN <<>> ELSE <<Head(top_missing)>>)
         \o NotContainedIn(Tail(top_missing), text)

\* lines 185-195: the suggestions one group each
GroupSuggestions(top_missing) ==
  (IF AnyMember(frontend_keywords, top_missing) THEN <<FrontendSuggestion>> ELSE <<>>)
  \o (IF AnyMember(backend_keywords, top_missing) THEN <<BackendSuggestion>> ELSE <<>>)
  \o (IF AnyMember(cloud_keywords, top_missing) THEN <<CloudSuggestion>> ELSE <<>>)
  \o (IF AnyMember(testing_keywords, top_missing) THEN <<TestingSuggestion>> ELSE <<>>)

\* line 183 examining the whole list
TopMissing_All(missing_keywords) == missing_keywords

\* line 183
TopMissing(missing_keywords) == Take(missing_keywords, 8)

\* lines 177-200: the setup line, the group lines and the line naming the
\* keywords that are not yet part of the text of the list
SpecificSuggestions(missing_keywords) ==
  IF missing_keywords = <<>> THEN <<SetupSuggestion>>
  ELSE TheOnly({
         TheOnly({IF remaining # <<>>
                    THEN grouped \o <<ConsiderPrefix \o Join(Take(remaining, 5), ", ")>>
                    ELSE grouped :
                  remaining \in {NotContainedIn(TopMissing(missing_keywords),
                                                StrOfList(grouped))}}) :
         grouped \in {<<SetupSuggestion>>
                        \o GroupSuggestions(TopMissing(missing_keywords))}})

\* lines 140 and 208
Limit(items) == Take(items, 5)

_generate_fallback_suggestions(missing_keywords) ==
  Limit(SpecificSuggestions(missing_keywords) \o ClosingSuggestions)

\* the missing-keyword lists handed to generate_suggestions
SuggestKeywordPool == <<"react", "python", "aws", "testing", "sql">>
LongMissing(last) == <<"sql", "kafka", "redis", "git", "mysql", "nginx", "s3", "jwt", last>>
MissingForSuggest ==
  {q \in UNION {[1..n -> {SuggestKeywordPool[k] : k \in DOMAIN SuggestKeywordPool}] :
                  n \in 0..MaxMissing} : \A i, k \in DOMAIN q : i < k => q[i] # q[k]}
  \cup {<<"react", "python", "aws", "testing">>,
        <<"react", "python", "aws", "sql", "testing">>,
        <<"r", "go">>, <<"jest", "vue">>,
        LongMissing("docker"), LongMissing("css")}

\* replies of the service
GoodLine1 == "- Add Docker and AWS to your skills section."
GoodLine2 == "2. Quantify the latency work in the payments project:"
GoodLine3 == "* Mention pytest in the testing bullet of your last role."
Replies ==
  {[kind |-> "raise", content |-> ""],
   [kind |-> "content", content |-> ""],
   [kind |-> "content", content |-> "Here are my suggestions:\n\n- Too short\n"],
   [kind |-> "content", content |-> GoodLine1],
   [kind |-> "content", content |-> "Suggestions:\n" \o GoodLine1 \o "\n" \o GoodLine2],
   [kind |-> "content",
    content |-> GoodLine1 \o "\n" \o GoodLine2 \o "\n  " \o GoodLine3 \o "\n"],
   [kind |-> "content",
    content |-> "Improve as follows\n" \o GoodLine1 \o "\n" \o GoodLine2 \o "\n"
                  \o GoodLine3 \o "\n" \o GoodLine1 \o "\n" \o GoodLine2 \o "\n"
                  \o GoodLine3]}

\* _get_client: the client the call uses and the new value of the module's
\* _client, given whether OPENAI_API_KEY is set
_get_client(cached_client, api_key_set) ==
  IF cached_client = "None"
    THEN (IF ~api_key_set THEN [client |-> "None", _client |-> "None"]
          ELSE [client |-> "OpenAI", _client |-> "OpenAI"])
    ELSE [client |-> cached_client, _client |-> cached_client]

\* _generate_fallback_suggestions and _parse_suggestions over the inputs
\* above, computed once
\* the texts the /analyze requests reach the collaborators with, and the
\* lists of missing keywords they give
ServeJds == {"Python, AWS and Docker", "Senior Java developer, 3+ years experience"}
ServeRawTexts == {"I know Python", "AWS, Docker, Python 2019 - present"}
ServeMissing ==
  {MissingIn(jd_keywords, raw_text) :
     jd_keywords \in {extract_keywords(jd, FALSE, {}) : jd \in ServeJds}
                       \cup {extract_keywords("", TRUE, {"python", "aws"})},
     raw_text \in ServeRawTexts}
FallbackMemo ==
  {<<missing_keywords, _generate_fallback_suggestions(missing_keywords)>> :
     missing_keywords \in MissingForSuggest \cup ServeMissing}
FallbackAt(missing_keywords) ==
  (CHOOSE e \in FallbackMemo : e[1] = missing_keywords)[2]
ParseMemo == {<<reply.content, _parse_suggestions(reply.content)>> : reply \in Replies}
ParsedAt(content) == (CHOOSE e \in ParseMemo : e[1] = content)[2]

\* generate_suggestions, given the client and the service's reply: the list
\* it returns and the return statement it leaves by
generate_suggestions(missing_keywords, client, reply) ==
  IF client = "None"
    THEN [suggestions |-> FallbackAt(missing_keywords), path |-> "unavailable"]
  ELSE IF reply.kind = "raise"
    THEN [suggestions |-> FallbackAt(missing_keywords), path |-> "raised"]
  ELSE IF reply.content = ""
    THEN [suggestions |-> FallbackAt(missing_keywords), path |-> "empty"]
  ELSE IF ParsedAt(reply.content) = <<>>
    THEN [suggestions |-> FallbackAt(missing_keywords), path |-> "unparseable"]
  ELSE [suggestions |-> Limit(ParsedAt(reply.content)), path |-> "parsed"]


(***************************************************************************)
(* semantic_compare (nlp.py).  The vector store and the embedding model    *)
(* are collaborators.  A backend record says whether both were loaded      *)
(* (available), which call of the store raises (fault) and which embedding *)
(* model is loaded (embedding): a model is a fixed function from two       *)
(* texts to a distance, or to a dot product when the store reports no      *)
(* distances.  The store is the set of collections it holds, each with its *)
(* documents.  Distances, dot products and similarities are integers in    *)
(* ten-thousandths; a reported similarity (round(x, 3)) is in thousandths. *)
(***************************************************************************)
\* index of the first separator at or after start, Len(text) + 1 if none
NextCut(text, start, separators) ==
  IF \E i \in start..Len(text) : Ch(text, i) \in separators
    THEN CHOOSE i \in start..Len(text) :
           /\ Ch(text, i) \in separators
           /\ \A k \in start..(i - 1) : Ch(text, k) \notin separators
    ELSE Len(text) + 1

\* the pieces of text between separator characters, stripped, empty ones
\* dropped: re.split(r'[.!?]+', text) and chunk.split() as the loops of
\* _chunk_text use them
RECURSIVE PiecesFrom(_, _, _)
PiecesFrom(text, start, separators) ==
  IF start > Len(text) THEN <<>>
  ELSE TheOnly({
         TheOnly({IF Len(piece) > 0 THEN <<piece>> ELSE <<>> :
                  piece \in {Strip(SubSeq(text, start, cut - 1))}})
           \o PiecesFrom(text, cut + 1, separators) :
         cut \in {NextCut(text, start, separators)}})

\* lines 332-346 and 354-361: pieces are joined with spaces into chunks of
\* at most max_chars characters
RECURSIVE Pack(_, _, _)
Pack(pieces, max_chars, current) ==
  IF pieces = <<>> THEN (IF current # "" THEN <<Strip(current)>> ELSE <<>>)
  ELSE IF Len(current) + Len(Head(pieces)) + 1 > max_chars /\ current # ""
    THEN <<Strip(current)>> \o Pack(Tail(pieces), max_chars, Head(pieces))
  ELSE Pack(Tail(pieces), max_chars, Strip(current \o " " \o Head(pieces)))

\* lines 349-363
RECURSIVE SplitLongChunks(_, _)
SplitLongChunks(chunks, max_chars) ==
  IF chunks = <<>> THEN <<>>
  ELSE (IF 2 * Len(Head(chunks)) > 3 * max_chars
          THEN Pack(PiecesFrom(Head(chunks), 1, {" ", "\t", "\n", "\r", "\f"}),
                    max_chars, "")
          ELSE <<Head(chunks)>>)
         \o SplitLongChunks(Tail(chunks), max_chars)

_chunk_text(text, max_chars) ==
  IF Len(Strip(text)) = 0 THEN <<>>
  ELSE Take(SplitLongChunks(Pack(PiecesFrom(text, 1, {".", "!", "?"}), max_chars, ""),
                            max_chars), 50)

\* the number a sample text's chunk starts with (0 for other texts): what
\* the sample embedding models below tell chunks apart by
ChunkNo(chunk) ==
  IF Len(chunk) > 0 /\ IsDigit(Ch(chunk, 1)) THEN DigitVal(Ch(chunk, 1)) ELSE 0

\* the distance the store reports between a query text and a document
Distance(embedding, resume_chunk, doc) ==
  IF embedding = "near"
    THEN ((7 * ChunkNo(resume_chunk) + 13 * ChunkNo(doc)) % 5) * 333
  ELSE IF embedding = "mid"
    THEN 3600 + ((ChunkNo(resume_chunk) + 2 * ChunkNo(doc)) % 3) * 451
  ELSE 9000 + ((ChunkNo(resume_chunk) + ChunkNo(doc)) % 4) * 2512

\* np.dot of the two normalised embeddings: a cosine, in [-1, 1]
DotProduct(resume_chunk, doc) ==
  ((5 * ChunkNo(resume_chunk) + 3 * ChunkNo(doc)) % 7) * 1800 - 1234

\* _compute_direct_similarity
_compute_direct_similarity(text1, text2, backend) ==
  IF ~backend.available \/ backend.fault = "encode" THEN 0
  ELSE DotProduct(text1, text2)

\* the n documents of the collection nearest to the query, nearest first;
\* a document is a pair <<id, text>>
RECURSIVE Nearest(_, _, _, _)
Nearest(docs, n, embedding, resume_chunk) ==
  IF n = 0 \/ docs = {} THEN <<>>
  ELSE TheOnly({<<best[2]>> \o Nearest(docs \ {best}, n - 1, embedding, resume_chunk) :
                best \in {CHOOSE d \in docs : \A other \in docs :
                            \/ Distance(embedding, resume_chunk, d[2])
                                 < Distance(embedding, resume_chunk, other[2])
                            \/ /\ Distance(embedding, resume_chunk, d[2])
                                    = Distance(embedding, resume_chunk, other[2])
                               /\ d[1] <= other[1]}})

\* lines 273-277: the similarity of one returned document
SimilarityOf(distance_known, distance, resume_chunk, doc, backend) ==
  IF distance_known
    THEN (IF 10000 - distance > 0 THEN 10000 - distance ELSE 0)
    ELSE _compute_direct_similarity(resume_chunk, doc, backend)

\* lines 262-283: the matches one resume chunk adds, each with its unrounded
\* similarity (raw); none when the query raises or returns no documents
QueryMatches(resume_chunk, chunk_index, n_results, docs, backend) ==
  IF backend.fault = "query" \/ (backend.fault = "query_odd" /\ chunk_index % 2 = 1)
    THEN <<>>
  ELSE TheOnly({[k \in DOMAIN found |->
                   TheOnly({[jd |-> found[k], resume |-> resume_chunk,
                             similarity |-> Round3(<<raw, 10000>>), raw |-> raw] :
                            raw \in {SimilarityOf(backend.embedding # "no_distances",
                                                  Distance(backend.embedding,
                                                           resume_chunk, found[k]),
                                                  resume_chunk, found[k], backend)}})] :
                found \in {Nearest(docs, n_results, backend.embedding, resume_chunk)}})

\* lines 260-293: the loop over the resume chunks
RECURSIVE AllMatches(_, _, _, _, _)
AllMatches(resume_chunks, chunk_index, n_results, docs, backend) ==
  IF chunk_index > Len(resume_chunks) THEN <<>>
  ELSE QueryMatches(resume_chunks[chunk_index], chunk_index, n_results, docs, backend)
         \o AllMatches(resume_chunks, chunk_index + 1, n_results, docs, backend)

\* lines 286-289: similarities_per_jd[doc]
BestFor(doc, found_matches) ==
  CHOOSE best \in {found_matches[i].raw :
                     i \in {k \in DOMAIN found_matches : found_matches[k].jd = doc}} :
    \A i \in DOMAIN found_matches :
      found_matches[i].jd = doc => found_matches[i].raw <= best

\* sum(similarities_per_jd.values()) over the documents in jds
RECURSIVE SumBest(_, _)
SumBest(jds, found_matches) ==
  IF jds = {} THEN 0
  ELSE TheOnly({BestFor(doc, found_matches) + SumBest(jds \ {doc}, found_matches) :
                doc \in {CHOOSE d \in jds : TRUE}})

\* lines 296-302: the normalised average as a ratio <<n, d>>
NormalizedSimilarity(found_matches) ==
  IF found_matches = <<>> THEN <<0, 1>>
  ELSE TheOnly({IF total - 5000 * count < 0 THEN <<0, 1>>
                ELSE IF total - 5000 * count > 5000 * count THEN <<1, 1>>
                ELSE <<total - 5000 * count, 5000 * count>> :
                total \in {SumBest({found_matches[i].jd : i \in DOMAIN found_matches},
                                   found_matches)},
                count \in {Cardinality({found_matches[i].jd :
                                          i \in DOMAIN found_matches})}})

\* list.sort(key=similarity, reverse=True): stable, largest first
RECURSIVE InsertMatch(_, _)
InsertMatch(m, sorted_matches) ==
  IF sorted_matches = <<>> THEN <<m>>
  ELSE IF Head(sorted_matches).similarity >= m.similarity
    THEN <<Head(sorted_matches)>> \o InsertMatch(m, Tail(sorted_matches))
  ELSE <<m>> \o sorted_matches
RECURSIVE SortMatches(_)
SortMatches(found_matches) ==
  IF found_matches = <<>> THEN <<>>
  ELSE InsertMatch(found_matches[Len(found_matches)],
                   SortMatches(SubSeq(found_matches, 1, Len(found_matches) - 1)))

\* the entries of the returned list
Reported(found_matches) ==
  [k \in DOMAIN found_matches |->
     [jd |-> found_matches[k].jd, resume |-> found_matches[k].resume,
      similarity |-> found_matches[k].similarity]]

ZeroResult == [avg_similarity |-> <<0, 1>>, matches |-> <<>>]
NoCollection == [exists |-> FALSE, docs |-> {}]

\* lines 240-243: delete_collection, its error swallowed
DeleteFirst(store, backend) ==
  IF backend.fault = "delete" THEN store ELSE NoCollection

\* line 315
TopMatches(sorted_matches) == Take(sorted_matches, 20)

\* sample texts: sentence k is a digit followed by 150 more characters
Filler ==
  " built and ran the order service on AWS with Docker and Python, cut the"
  \o " p95 latency by a third and wrote the runbook the on-call team now uses"
  \o " every day"
SampleSentence(k) == Digits[k + 1] \o Filler
LongText(n) == Join([k \in 1..n |-> SampleSentence(k)], ". ") \o "."
\* one run of words without a full stop, longer than 450 characters
LongWord == "microservices-orchestration-platform"
Unpunctuated == Join([k \in 1..13 |-> LongWord], " ")
SemanticJdTexts ==
  {"", "  ", "?!", "We build things", LongText(2), LongText(3), LongText(4)}
SemanticResumeTexts ==
  {"", "...", "I build things. I know Python!", LongText(2), LongText(7), Unpunctuated}
Faults == {"none", "delete", "create", "add", "query", "query_odd", "encode"}
Embeddings == {"near", "mid", "far", "no_distances"}
Backends ==
  {[available |-> FALSE, fault |-> "none", embedding |-> "near"]}
  \cup {[available |-> TRUE, fault |-> f, embedding |-> "near"] : f \in Faults}
  \cup {[available |-> TRUE, fault |-> f, embedding |-> e] :
          f \in {"none", "query_odd", "encode"}, e \in Embeddings}

\* the backends of the /analyze requests
ServeBackends ==
  {[available |-> FALSE, fault |-> "none", embedding |-> "near"],
   [available |-> TRUE, fault |-> "none", embedding |-> "near"],
   [available |-> TRUE, fault |-> "delete", embedding |-> "near"],
   [available |-> TRUE, fault |-> "add", embedding |-> "near"],
   [available |-> TRUE, fault |-> "none", embedding |-> "no_distances"]}

\* _chunk_text over the sample texts, computed once
ChunkMemo ==
  {<<text, _chunk_text(text, 300)>> :
     text \in SemanticJdTexts \cup SemanticResumeTexts \cup ServeJds \cup ServeRawTexts}
ChunksAt(text) == (CHOOSE e \in ChunkMemo : e[1] = text)[2]

\* lines 256-305 and 313-316: the result when the collection was created
\* and filled
MatchesOf(jd_chunks, resume_chunks, backend) ==
  TheOnly({[avg_similarity |-> NormalizedSimilarity(found_matches),
            matches |-> TopMatches(Reported(SortMatches(found_matches)))] :
           found_matches \in
             {AllMatches(resume_chunks, 1,
                         IF Len(jd_chunks) < 3 THEN Len(jd_chunks) ELSE 3,
                         {<<i, jd_chunks[i]>> : i \in DOMAIN jd_chunks}, backend)}})

\* the same over the chunks of the sample texts, computed once
MatchMemo ==
  {<<k, MatchesOf(k[1], k[2], k[3])>> :
     k \in ({ChunksAt(t) : t \in SemanticJdTexts}
              \X {ChunksAt(t) : t \in SemanticResumeTexts}
              \X {b \in Backends : b.available})
           \cup ({ChunksAt(t) : t \in ServeJds} \X {ChunksAt(t) : t \in ServeRawTexts}
                   \X {b \in ServeBackends : b.available})}
MatchesAt(jd_chunks, resume_chunks, backend) ==
  (CHOOSE e \in MatchMemo : e[1] = <<jd_chunks, resume_chunks, backend>>)[2]

\* lines 238-320 once both texts have chunks: the result and the store the
\* call leaves behind
CompareChunks(jd_chunks, resume_chunks, backend, store) ==
  TheOnly({
    IF backend.fault = "create" \/ emptied.exists
      THEN [result |-> ZeroResult, store |-> emptied]
    ELSE IF backend.fault = "add"
      THEN [result |-> ZeroResult, store |-> [exists |-> TRUE, docs |-> {}]]
    ELSE [result |-> MatchesAt(jd_chunks, resume_chunks, backend),
          store |-> IF backend.fault = "delete"
                      THEN [exists |-> TRUE,
                            docs |-> {<<i, jd_chunks[i]>> : i \in DOMAIN jd_chunks}]
                      ELSE NoCollection] :
    emptied \in {DeleteFirst(store, backend)}})

semantic_compare(jd_text, resume_text, backend, store) ==
  IF ~backend.available THEN [result |-> ZeroResult, store |-> store]
  ELSE TheOnly({IF jd_chunks = <<>> \/ resume_chunks = <<>>
                  THEN [result |-> ZeroResult, store |-> store]
                  ELSE CompareChunks(jd_chunks, resume_chunks, backend, store) :
                jd_chunks \in {ChunksAt(jd_text)},
                resume_chunks \in {ChunksAt(resume_text)}})

(***************************************************************************)
(* _compute_context_bonus with its local variables kept: the four cue      *)
(* flags, the lists of year counts and the three sub-bonuses (thousandths).*)
(***************************************************************************)
ContextLocals(jd_text, resume_text, now_year) ==
  TheOnly({[jd_is_junior |-> jd_is_junior,
            jd_is_senior |-> jd_is_senior,
            resume_is_junior |-> resume_is_junior,
            resume_is_senior |-> resume_is_senior,
            seniority_bonus |-> SeniorityBonus(jd_is_junior, jd_is_senior,
                                               resume_is_junior, resume_is_senior),
            jd_years |-> jd_years,
            resume_years |-> resume_years,
            resume_mentions |-> resume_mentions_of(resume_text),
            date_ranges |-> date_ranges_of(resume_text),
            years_bonus |-> YearsBonusOf(jd_years, resume_years),
            jd_domains |-> DomainsIn(Lower(jd_text)),
            resume_domains |-> DomainsIn(Lower(resume_text)),
            domain_bonus |-> domain_bonus,
            returned |-> CombineBonuses(
                           SeniorityBonus(jd_is_junior, jd_is_senior,
                                          resume_is_junior, resume_is_senior),
                           YearsBonusOf(jd_years, resume_years), domain_bonus)] :
             jd_is_junior \in {AnyIn(junior_indicators_jd, Lower(jd_text))},
             jd_is_senior \in {AnyIn(senior_indicators_jd, Lower(jd_text))},
             resume_is_junior \in {AnyIn(junior_indicators_resume, Lower(resume_text))},
             resume_is_senior \in {AnyIn(senior_indicators_resume, Lower(resume_text))},
             jd_years \in {jd_years_of(jd_text)},
             resume_years \in {resume_years_of(resume_text, now_year)},
             domain_bonus \in {_compute_domain_alignment(jd_text, resume_text)}})

\* job descriptions by cue set matched and years asked for
ContextJdTexts ==
  {"We build things",
   "senior",
   "Junior developer, at least 2 years",
   "Senior engineer, 5+ years experience",
   "Senior or junior engineer, minimum 10 years",
   "Entry level, 10+ years of experience",
   "Engineer with 3 years in Python",
   "Senior fintech engineer, 5+ years experience",
   "Fintech payment platform",
   "Mobile game studio"}

\* resumes by cue set matched and years shown
ContextResumeTexts ==
  {"I build things",
   "senior, led team",
   "Intern with 1 year of experience",
   "Senior dev, mentor of interns, 7 years of experience",
   "Developer 2019 - present",
   "Junior developer, 2 years of experience, 2015 - 2024",
   "Lead engineer 1985 - 2020, 3 years of experience",
   "Learning to code 2023 - 2022",
   "Engineer 1990 - 2000, then 1991 - 1995",
   "Analyst 2015 - 2018 and 2019 - 2023",
   "Consultant 2020 - 2020, 2021 - Current",
   "Banking analytics, SaaS platform",
   "Senior dev, led team, banking, 3 years of experience",
   "Android and iOS apps"}

ContextLocalsMemo ==
  {<<k, ContextLocals(k[1], k[2], k[3])>> :
     k \in ContextJdTexts \X ContextResumeTexts \X Years}
ContextLocalsAt(jd_text, resume_text, now_year) ==
  (CHOOSE e \in ContextLocalsMemo : e[1] = <<jd_text, resume_text, now_year>>)[2]

(***************************************************************************)
(* Exceptions inside the context calculator.  Each of the three functions  *)
(* wraps its whole body in try / except Exception: return 0.0.  An         *)
(* exception can be raised in the years computation (int() of a count      *)
(* longer than the interpreter's digit limit is a ValueError), in the      *)
(* domain computation, or in the body of _compute_context_bonus itself     *)
(* (None.lower() is an AttributeError); where one is raised is the         *)
(* environment's choice.                                                   *)
(***************************************************************************)
ContextRaises == [years : BOOLEAN, domain : BOOLEAN, body : BOOLEAN]

\* try: <value> except Exception: return 0.0
Absorbed(raised, value) == IF raised THEN 0 ELSE value

\* the locals with the two inner try blocks left out: an exception of a
\* sub-signal reaches the except clause of _compute_context_bonus
ContextLocalsRaising_OuterOnly(locals, raised) ==
  [locals EXCEPT
     !.years_bonus = Absorbed(raised.years, @),
     !.domain_bonus = Absorbed(raised.domain, @),
     !.returned = Absorbed(raised.body \/ raised.years \/ raised.domain, @)]

\* the locals of _compute_context_bonus when exceptions are raised at the
\* places raised names; locals are those of the run without exceptions
ContextLocalsRaising(locals, raised) ==
  [locals EXCEPT
     !.years_bonus = Absorbed(raised.years, @),
     !.domain_bonus = Absorbed(raised.domain, @),
     !.returned =
        Absorbed(raised.body,
                 CombineBonuses(locals.seniority_bonus,
                                Absorbed(raised.years, locals.years_bonus),
                                Absorbed(raised.domain, locals.domain_bonus)))]

\* compute_score with the value its call of _compute_context_bonus returned
ScoreWithContext(jd_keywords, found_keywords, missing_keywords, semantic_similarity, context_bonus, round_up) ==
  IF ScoreRaises(jd_keywords, found_keywords, missing_keywords, semantic_similarity)
    THEN SafeDefaults
  ELSE TheOnly({ScoreOf(recall, precision, semantic_score, context_bonus, round_up) :
                  recall \in {RecallOf(jd_keywords, found_keywords)},
                  precision \in {PrecisionOf(found_keywords, missing_keywords)},
                  semantic_score \in {SemanticOf(semantic_similarity)}})

\* the float error of the weighted score goes either way on a tie
RoundingsWithContext(jd_keywords, found_keywords, missing_keywords, semantic_similarity, context_bonus) ==
  IF ScoreRaises(jd_keywords, found_keywords, missing_keywords, semantic_similarity)
    THEN {FALSE}
  ELSE IF \E recall \in {RecallOf(jd_keywords, found_keywords)},
             precision \in {PrecisionOf(found_keywords, missing_keywords)},
             semantic_score \in {SemanticOf(semantic_similarity)} :
            WeightedIsTie(recall, precision, semantic_score, context_bonus)
    THEN BOOLEAN
  ELSE {FALSE}

\* keyword lists and similarities of the calls made while exceptions are
\* raised: some, none, and a similarity compute_score itself fails on
RaisingJdKeywords == {PyList(<<>>), PyList(SubSeq(KwUniverse, 1, 2))}
RaisingFoundKeywords == {PyList(<<>>), PyList(SubSeq(KwUniverse, 1, 1))}
RaisingMissingKeywords == {PyList(SubSeq(KwUniverse, 2, 2))}
RaisingSimilarities == {PyFloat(0), PyFloat(5000), NoneNum}

(***************************************************************************)
(* The /analyze handler with its collaborators wired in (main.py imports   *)
(* generate_suggestions from ai_openai; the module in the repository is    *)
(* ai_opanai.py).  An upload is described by what the handler reads of it: *)
(* its name, its MIME type, the number of bytes file.read() returns,       *)
(* whether the document library can open it, the plain text the library    *)
(* extracts and, for LaTeX, the decoded source.                            *)
(***************************************************************************)
MAX_FILE_SIZE == 4000000

NoFile ==
  [present |-> FALSE, filename |-> "", content_type |-> "", size |-> 0,
   readable |-> FALSE, text |-> "", raw |-> ""]

\* str.endswith
EndsWith(s, suffix) ==
  /\ Len(s) >= Len(suffix)
  /\ SubSeq(s, Len(s) - Len(suffix) + 1, Len(s)) = suffix

\* what parse_resume hands back: status 0 is a normal return, any other
\* status is that of the HTTPException raised; latex_raw "" stands for None
Parsed(raw_text, latex_raw) ==
  [status |-> 0, raw_text |-> raw_text, latex_raw |-> latex_raw]
ParseFailed(status_code) == [status |-> status_code, raw_text |-> "", latex_raw |-> ""]

\* _parse_pdf: a ValueError becomes the 400 of parse_resume's except clause
_parse_pdf(file) ==
  IF ~file.readable \/ file.text = "" THEN ParseFailed(400)
  ELSE Parsed(file.text, "")

\* _parse_docx: the HTTPException of line 116 passes through line 80
_parse_docx(file, docx_installed) ==
  IF ~docx_installed THEN ParseFailed(500)
  ELSE IF ~file.readable \/ file.text = "" THEN ParseFailed(400)
  ELSE Parsed(file.text, "")

\* _parse_latex: file.text is the text the conversion of the source yields
_parse_latex(file) ==
  IF Len(Strip(file.raw)) = 0 THEN ParseFailed(400)
  ELSE IF ~file.readable \/ Len(Strip(file.text)) = 0 THEN ParseFailed(400)
  ELSE Parsed(Strip(file.text), file.raw)

\* lines 52-56 rejecting a file of MAX_FILE_SIZE bytes too
TooLarge_AtLimit(size) == size >= MAX_FILE_SIZE

\* lines 52-56
TooLarge(size) == size > MAX_FILE_SIZE

\* parse_resume from line 46 on: the file has been read
parse_upload(file, docx_installed) ==
  IF TooLarge(file.size) THEN ParseFailed(413)
  ELSE TheOnly({
    IF EndsWith(filename, ".pdf") THEN _parse_pdf(file)
    ELSE IF EndsWith(filename, ".docx") THEN _parse_docx(file, docx_installed)
    ELSE IF EndsWith(filename, ".tex") THEN _parse_latex(file)
    ELSE IF Contains("pdf", file.content_type) THEN _parse_pdf(file)
    ELSE IF Contains("word", file.content_type)
              \/ Contains("document", file.content_type)
      THEN _parse_docx(file, docx_installed)
    ELSE ParseFailed(415) :
    filename \in {Lower(file.filename)}})

\* lines 72-82 checking nothing
Validate_Skipped(job_description, file, resume_text) == 0

\* lines 72-82: 400 when the request is rejected, 0 when it passes
Validate(job_description, file, resume_text) ==
  IF ~file.present /\ ~(resume_text.type = "str" /\ Len(resume_text.val) > 0)
    THEN 400
  ELSE IF Len(Strip(job_description)) = 0 THEN 400
  ELSE 0

\* lines 38-40: the direct text is used
UsesText(resume_text) ==
  resume_text.type = "str" /\ Len(Strip(resume_text.val)) > 0

\* the markup with the suggestions inserted
insert_suggestions_into_latex(latex_raw, suggestion_list) ==
  [markup |-> latex_raw, inserted |-> suggestion_list]

\* avg_similarity as the float compute_score receives, in ten-thousandths
FloatOf(ratio) == PyFloat((10000 * ratio[1]) \div ratio[2])

\* the environment of a request: what the collaborators do during it
DefaultEnv ==
  [spacy_ok |-> FALSE, matched |-> {},
   backend |-> [available |-> TRUE, fault |-> "none", embedding |-> "near"],
   api_key_set |-> FALSE, reply |-> [kind |-> "raise", content |-> ""],
   docx_installed |-> TRUE, float_up |-> FALSE]

AnalyzeRequest(job_description, file, resume_text, is_latex, env) ==
  [job_description |-> job_description, file |-> file,
   resume_text |-> resume_text, is_latex |-> is_latex, env |-> env]

Upload(filename, content_type, size, readable) ==
  [present |-> TRUE, filename |-> filename, content_type |-> content_type,
   size |-> size, readable |-> readable, text |-> "I know Python",
   raw |-> IF EndsWith(Lower(filename), ".tex")
             THEN "\\section{Skills} I know Python" ELSE ""]

\* requests without usable input
InvalidRequests ==
  {AnalyzeRequest(jd, NoFile, resume_text, FALSE, DefaultEnv) :
     jd \in {"", "  ", "Python, AWS and Docker"},
     resume_text \in {NoneStr, PyStr("")}}
  \cup {AnalyzeRequest("  ", NoFile, PyStr(" I know Python "), FALSE, DefaultEnv),
        AnalyzeRequest("", Upload("cv.pdf", "application/pdf", 1000, TRUE),
                       NoneStr, FALSE, DefaultEnv),
        AnalyzeRequest("Python, AWS and Docker", NoFile, PyStr("  "), FALSE,
                       DefaultEnv)}

\* requests with resume text, under every backend
TextRequests ==
  {AnalyzeRequest(jd, NoFile, PyStr(resume_text), FALSE,
                  [DefaultEnv EXCEPT !.backend = backend]) :
     jd \in ServeJds,
     resume_text \in {" I know Python ", "AWS, Docker, Python 2019 - present"},
     backend \in ServeBackends}
  \cup {AnalyzeRequest("Python, AWS and Docker", NoFile, PyStr("I know Python"), TRUE,
                       [DefaultEnv EXCEPT !.api_key_set = TRUE, !.reply = reply]) :
          reply \in {[kind |-> "raise", content |-> ""],
                     [kind |-> "content", content |-> GoodLine1]}}
  \cup {AnalyzeRequest("Python, AWS and Docker", NoFile, PyStr("I know Python"), FALSE,
                       [DefaultEnv EXCEPT !.spacy_ok = TRUE,
                                          !.matched = {"python", "aws"}])}

\* requests with a file around the size limit, and files no parser takes
FileRequests ==
  {AnalyzeRequest("Python, AWS and Docker",
                  Upload(filename, "application/octet-stream", size, TRUE),
                  NoneStr, FALSE, [DefaultEnv EXCEPT !.docx_installed = docx_installed]) :
     filename \in {"cv.pdf", "CV.docx", "cv.tex", "cv.bin"},
     size \in {MAX_FILE_SIZE - 1, MAX_FILE_SIZE, MAX_FILE_SIZE + 1},
     docx_installed \in BOOLEAN}
  \cup {AnalyzeRequest("Python, AWS and Docker", Upload("cv.pdf", "application/pdf", 1000, FALSE),
                       PyStr("  "), FALSE, DefaultEnv),
        AnalyzeRequest("Python, AWS and Docker", Upload("resume", "application/pdf", 1000, TRUE),
                       NoneStr, FALSE, DefaultEnv),
        AnalyzeRequest("Python, AWS and Docker", Upload("resume", "application/msword", 1000, TRUE),
                       NoneStr, FALSE, DefaultEnv),
        AnalyzeRequest("Python, AWS and Docker",
                       Upload("cv.pdf", "application/pdf", MAX_FILE_SIZE + 1, TRUE),
                       PyStr("I know Python"), FALSE, DefaultEnv)}

AnalyzeRequests == InvalidRequests \cup TextRequests \cup FileRequests

\* what a run of the handler leaves: the response, the calls it made in
\* order, what compute_score returned, and the collection and the OpenAI
\* client it leaves to the process
Rejected(status_code, calls_made, store, cached_client) ==
  [response |-> [status |-> status_code], log |-> calls_made, scores |-> <<>>,
   store |-> store, client |-> cached_client]

\* lines 128-129 leaving the score out of the response
ScoreFields_NoScore(returned) ==
  [score |-> 0, components |-> returned.components]

\* lines 128-129: the score and the components of the response
ScoreFields(returned) ==
  [score |-> returned.final_score, components |-> returned.components]

\* lines 109-146: scoring, suggestions, annotation and the response
HandleCompared(inp, raw_text, latex_raw, jd_keywords, found_keywords, missing_keywords, compared, got, now_year) ==
  TheOnly({
    [response |->
       [status |-> 200,
        score |-> ScoreFields(returned).score,
        components |-> ScoreFields(returned).components,
        keywords |-> [found |-> found_keywords,
                      missing |-> missing_keywords,
                      all_extracted_from_jd |-> jd_keywords],
        semantic_matches |-> compared.result.matches,
        suggestions |-> made.suggestions,
        latex_annotated |->
          IF annotate THEN <<insert_suggestions_into_latex(latex_raw, made.suggestions)>>
          ELSE <<>>,
        limits |-> [file_bytes_max |-> 4000000,
                    tokens_trimmed |-> Len(raw_text) > 10000
                                         \/ Len(inp.job_description) > 5000]],
     log |-> <<"extract_keywords", "semantic_compare", "compute_score",
               "generate_suggestions">>
             \o (IF annotate THEN <<"insert_suggestions_into_latex">> ELSE <<>>),
     scores |-> <<returned>>,
     store |-> compared.store,
     client |-> got._client] :
    returned \in
      {compute_score(PyList(jd_keywords), PyList(found_keywords),
                     PyList(missing_keywords),
                     FloatOf(compared.result.avg_similarity),
                     PyStr(inp.job_description), PyStr(raw_text), now_year,
                     inp.env.float_up
                       /\ TRUE \in RoundingDirections(
                            PyList(jd_keywords), PyList(found_keywords),
                            PyList(missing_keywords),
                            FloatOf(compared.result.avg_similarity),
                            PyStr(inp.job_description), PyStr(raw_text), now_year))},
    made \in {generate_suggestions(missing_keywords, got.client, inp.env.reply)},
    annotate \in
      {/\ inp.is_latex \/ (inp.file.present /\ inp.file.filename # ""
                            /\ EndsWith(Lower(inp.file.filename), ".tex"))
       /\ latex_raw # ""}})

\* lines 88-105: the text check, keyword extraction, matching and the
\* semantic comparison
HandleParsed(inp, raw_text, latex_raw, store, cached_client, now_year) ==
  IF Len(Strip(raw_text)) = 0 THEN Rejected(400, <<>>, store, cached_client)
  ELSE TheOnly({
    HandleCompared(inp, raw_text, latex_raw, jd_keywords,
                   FoundIn(jd_keywords, raw_text), MissingIn(jd_keywords, raw_text),
                   compared, got, now_year) :
    jd_keywords \in {extract_keywords(inp.job_description, inp.env.spacy_ok,
                                      inp.env.matched)},
    compared \in {semantic_compare(inp.job_description, raw_text,
                                   inp.env.backend, store)},
    got \in {_get_client(cached_client, inp.env.api_key_set)}})

\* line 86 on: the handler once parse_resume has returned or raised
HandleAfterParse(inp, parsed, store, cached_client, now_year) ==
  IF parsed.status # 0 THEN Rejected(parsed.status, <<>>, store, cached_client)
  ELSE HandleParsed(inp, parsed.raw_text, parsed.latex_raw, store,
                    cached_client, now_year)

\* parse_resume up to line 44 for a request that has no file to read
ParsedWithoutFile(resume_text) == Parsed(parse_resume(resume_text), "")

\* the whole handler when nothing else runs in between
Handle(inp, store, cached_client, now_year) ==
  IF Validate(inp.job_description, inp.file, inp.resume_text) # 0
    THEN Rejected(400, <<>>, store, cached_client)
  ELSE TheOnly({[out EXCEPT !.log = <<"parse_resume">> \o @] :
         out \in {HandleAfterParse(inp,
                    IF UsesText(inp.resume_text) \/ ~inp.file.present
                      THEN ParsedWithoutFile(inp.resume_text)
                      ELSE parse_upload(inp.file, inp.env.docx_installed),
                    store, cached_client, now_year)}})

(***************************************************************************)
(* State machine.  One caller drives the scoring engine: it calls          *)
(* compute_score and may call it again with the same arguments, calls      *)
(* get_score_explanation, or posts one request to /analyze.  The wall      *)
(* clock advances on its own.                                              *)
(***************************************************************************)
VARIABLES
  year,         \* datetime.now().year
  pc,           \* what the caller has done so far
  args,         \* the arguments of the compute_score call
  result,       \* what the first call returned
  call_year,    \* the calendar year in which the first call ran
  float_up,     \* the direction of the float error in the first call
  again,        \* what the second call with the same arguments returned
  again_year,   \* the calendar year in which the second call ran
  explain_args, \* the arguments of the get_score_explanation call
  explanation,  \* the string it returned
  request,      \* the /analyze request
  response      \* the /analyze response

\* the suggestion generator
VARIABLES
  _client,      \* ai_opanai._client
  suggest_args, \* the arguments and the environment of the last call
  suggestions,  \* what the last call of generate_suggestions returned
  suggest_path, \* the return statement the last call left by
  suggest_calls \* calls of generate_suggestions so far

scoreVars == <<year, pc, args, result, call_year, float_up, again, again_year,
               explain_args, explanation, request, response>>
\* the semantic comparison
VARIABLES
  chroma,       \* the collection "temp_jd_analysis" of nlp._chroma_client
  sem_args,     \* the arguments and the backend of the last semantic_compare
  sem_result,   \* what the last call of semantic_compare returned
  sem_calls     \* calls of semantic_compare so far

\* the context bonus
VARIABLES
  context_args,  \* the arguments of the _compute_context_bonus call
  context_locals, \* the local variables of that call at its return
  context_calls  \* calls of _compute_context_bonus so far

\* the /analyze service
VARIABLES
  stage,     \* per request: "new", "reading" (at await file.read()) or "done"
  inbox,     \* per request: the request received
  call_log,  \* per request: the collaborators called so far, in order
  score_log, \* per request: what each call of compute_score returned
  outbox     \* per request: the response sent

suggestVars == <<_client, suggest_args, suggestions, suggest_path, suggest_calls>>
semVars == <<chroma, sem_args, sem_result, sem_calls>>
contextVars == <<context_args, context_locals, context_calls>>
serveVars == <<stage, inbox, call_log, score_log, outbox>>
otherVars == <<suggestVars, semVars, contextVars, serveVars>>
vars == <<scoreVars, otherVars>>

None == "None"

\* the requests in flight
Rids == {1, 2}
NoRequest == AnalyzeRequest("", NoFile, NoneStr, FALSE, DefaultEnv)
NoResponse == [status |-> 0]

Init ==
  /\ year = 2024
  /\ pc = "idle"
  /\ args = None
  /\ result = None
  /\ call_year = 0
  /\ float_up = FALSE
  /\ again = None
  /\ again_year = 0
  /\ explain_args = None
  /\ explanation = ""
  /\ request = None
  /\ response = None
  /\ _client = None
  /\ suggest_args = None
  /\ suggestions = None
  /\ suggest_path = None
  /\ suggest_calls = 0
  /\ chroma = NoCollection
  /\ sem_args = None
  /\ sem_result = None
  /\ sem_calls = 0
  /\ context_args = None
  /\ context_locals = None
  /\ context_calls = 0
  /\ stage = [rid \in Rids |-> "new"]
  /\ inbox = [rid \in Rids |-> NoRequest]
  /\ call_log = [rid \in Rids |-> <<>>]
  /\ score_log = [rid \in Rids |-> <<>>]
  /\ outbox = [rid \in Rids |-> NoResponse]

\* the calendar year changes
Tick ==
  /\ year < MaxYear
  /\ year' = year + 1
  /\ UNCHANGED <<pc, args, result, call_year, float_up, again, again_year,
                 explain_args, explanation, request, response>>
  /\ UNCHANGED otherVars

\* a caller calls compute_score
ComputeScore ==
  /\ pc = "idle"
  /\ \E jd_text \in JdTexts, resume_text \in ResumeTexts :
       \E jd_keywords \in JdKeywordLists,
          found_keywords \in FoundKeywordLists,
          missing_keywords \in MissingKeywordLists,
          semantic_similarity \in SimilarityValues :
         /\ args' = [jd_keywords |-> jd_keywords,
                     found_keywords |-> found_keywords,
                     missing_keywords |-> missing_keywords,
                     semantic_similarity |-> semantic_similarity,
                     jd_text |-> jd_text,
                     resume_text |-> resume_text]
         /\ \E round_up \in RoundingDirections(jd_keywords, found_keywords,
                               missing_keywords, semantic_similarity,
                               jd_text, resume_text, year) :
              /\ result' = compute_score(jd_keywords, found_keywords,
                                         missing_keywords, semantic_similarity,
                                         jd_text, resume_text, year, round_up)
              /\ float_up' = round_up
  /\ call_year' = year
  /\ pc' = "scored"
  /\ UNCHANGED <<year, again, again_year, explain_args, explanation,
                 request, response>>
  /\ UNCHANGED otherVars

\* the caller calls compute_score once more with identical arguments
ComputeScoreAgain ==
  /\ pc = "scored"
  \* float arithmetic is deterministic: the same operands of the weighted
  \* sum give the same error
  /\ \E round_up \in
         IF ContextBonusAt(args.jd_text, args.resume_text, year)
              = ContextBonusAt(args.jd_text, args.resume_text, call_year)
           THEN {float_up}
         ELSE RoundingDirections(args.jd_keywords, args.found_keywords,
                                 args.missing_keywords, args.semantic_similarity,
                                 args.jd_text, args.resume_text, year) :
       again' = compute_score(args.jd_keywords, args.found_keywords,
                              args.missing_keywords, args.semantic_similarity,
                              args.jd_text, args.resume_text, year, round_up)
  /\ again_year' = year
  /\ pc' = "rescored"
  /\ UNCHANGED <<year, args, result, call_year, float_up, explain_args, explanation,
                 request, response>>
  /\ UNCHANGED otherVars

\* a caller calls get_score_explanation
Explain ==
  /\ pc = "idle"
  /\ \E components \in ExplainComponents, score \in ExplainScores :
       /\ explain_args' = [components |-> components, score |-> score]
       /\ explanation' = get_score_explanation(components, score)
  /\ pc' = "explained"
  /\ UNCHANGED <<year, args, result, call_year, float_up, again, again_year,
                 request, response>>
  /\ UNCHANGED otherVars

\* a client posts a request without a file to /analyze
Analyze ==
  /\ pc = "idle"
  /\ \E job_description \in JobDescriptions,
        resume_text \in ResumeTextInputs,
        spacy_ok \in BOOLEAN,
        avg_similarity \in AvgSimilarities :
     \E matched \in IF spacy_ok THEN MatcherKeywordSets ELSE {{}},
        round_up \in BOOLEAN :
       /\ request' = [job_description |-> job_description,
                      resume_text |-> resume_text]
       /\ response' = analyze(job_description, resume_text, spacy_ok, matched,
                              avg_similarity, year, round_up)
  /\ pc' = "analyzed"
  /\ UNCHANGED <<year, args, result, call_year, float_up, again, again_year,
                 explain_args, explanation>>
  /\ UNCHANGED otherVars

Next ==
  \/ Tick
  \/ ComputeScore
  \/ ComputeScoreAgain
  \/ Explain
  \/ Analyze

Spec == Init /\ [][Next]_vars

(***************************************************************************)
(* The suggestion generator on its own: a process calls                    *)
(* generate_suggestions up to MaxCalls times; _client survives the calls.  *)
(***************************************************************************)
Suggest ==
  /\ suggest_calls < MaxCalls
  /\ \E missing_keywords \in MissingForSuggest, api_key_set \in BOOLEAN,
        reply \in Replies :
       \E got \in {_get_client(_client, api_key_set)} :
         \E out \in {generate_suggestions(missing_keywords, got.client, reply)} :
           /\ _client' = got._client
           /\ suggest_args' = [missing_keywords |-> missing_keywords,
                               api_key_set |-> api_key_set, reply |-> reply]
           /\ suggestions' = out.suggestions
           /\ suggest_path' = out.path
  /\ suggest_calls' = suggest_calls + 1
  /\ UNCHANGED <<scoreVars, semVars, contextVars, serveVars>>

NextSuggest == Suggest

SpecSuggest == Init /\ [][NextSuggest]_vars

(***************************************************************************)
(* The semantic comparison on its own: a process calls semantic_compare up *)
(* to MaxCompares times; the store survives the calls.                     *)
(***************************************************************************)
SemanticCompare ==
  /\ sem_calls < MaxCompares
  /\ \E jd_text \in SemanticJdTexts, resume_text \in SemanticResumeTexts,
        backend \in Backends :
       \E out \in {semantic_compare(jd_text, resume_text, backend, chroma)} :
         /\ sem_args' = [jd_text |-> jd_text, resume_text |-> resume_text,
                         backend |-> backend, found_collection |-> chroma.exists]
         /\ sem_result' = out.result
         /\ chroma' = out.store
  /\ sem_calls' = sem_calls + 1
  /\ UNCHANGED <<scoreVars, suggestVars, contextVars, serveVars>>

NextSemantic == SemanticCompare

SpecSemantic == Init /\ [][NextSemantic]_vars

(***************************************************************************)
(* The context bonus on its own: a caller calls _compute_context_bonus     *)
(* once, in the calendar year the clock shows.                             *)
(***************************************************************************)
ContextBonus ==
  /\ context_calls = 0
  /\ context_calls' = 1
  /\ \E jd_text \in ContextJdTexts, resume_text \in ContextResumeTexts :
       /\ context_args' = [jd_text |-> jd_text, resume_text |-> resume_text,
                           now_year |-> year]
       /\ context_locals' = ContextLocalsAt(jd_text, resume_text, year)
  /\ UNCHANGED <<scoreVars, suggestVars, semVars, serveVars>>

NextContext == Tick \/ ContextBonus

SpecContext == Init /\ [][NextContext]_vars

\* one call of compute_score during which exceptions are raised inside the
\* context calculator
ComputeScoreRaising ==
  /\ pc = "idle"
  /\ context_calls = 0
  /\ \E jd_text \in ContextJdTexts, resume_text \in ContextResumeTexts,
        raised \in ContextRaises :
       \E jd_keywords \in RaisingJdKeywords,
          found_keywords \in RaisingFoundKeywords,
          missing_keywords \in RaisingMissingKeywords,
          semantic_similarity \in RaisingSimilarities,
          locals \in {ContextLocalsRaising(
                        ContextLocalsAt(jd_text, resume_text, year), raised)} :
         /\ args' = [jd_keywords |-> jd_keywords,
                     found_keywords |-> found_keywords,
                     missing_keywords |-> missing_keywords,
                     semantic_similarity |-> semantic_similarity,
                     jd_text |-> PyStr(jd_text),
                     resume_text |-> PyStr(resume_text)]
         /\ context_args' = [jd_text |-> jd_text, resume_text |-> resume_text,
                             now_year |-> year, raised |-> raised]
         /\ context_locals' = locals
         /\ \E round_up \in RoundingsWithContext(jd_keywords, found_keywords,
                               missing_keywords, semantic_similarity,
                               locals.returned) :
              /\ result' = ScoreWithContext(jd_keywords, found_keywords,
                                            missing_keywords, semantic_similarity,
                                            locals.returned, round_up)
              /\ float_up' = round_up
  /\ call_year' = year
  /\ pc' = "scored"
  /\ context_calls' = 1
  /\ UNCHANGED <<year, again, again_year, explain_args, explanation,
                 request, response>>
  /\ UNCHANGED <<suggestVars, semVars, serveVars>>

NextRaising == Tick \/ ComputeScoreRaising

SpecRaising == Init /\ [][NextRaising]_vars

(***************************************************************************)
(* The /analyze service: two requests on one event loop.  A handler runs   *)
(* until it returns or awaits; the only await that can suspend it is       *)
(* file.read() in parse_resume, so a request with a file to read is        *)
(* served in two steps and any step of the other request may come between. *)
(* The collection of nlp._chroma_client and ai_opanai._client are shared.  *)
(***************************************************************************)
\* the handler of request rid returns or raises: the response is sent
Deliver(rid, out) ==
  /\ outbox' = [outbox EXCEPT ![rid] = out.response]
  /\ call_log' = [call_log EXCEPT ![rid] = @ \o out.log]
  /\ score_log' = [score_log EXCEPT ![rid] = @ \o out.scores]
  /\ chroma' = out.store
  /\ _client' = out.client
  /\ stage' = [stage EXCEPT ![rid] = "done"]

\* lines 70-86 and parsers.py lines 38-49
Receive(rid) ==
  /\ stage[rid] = "new"
  /\ \E inp \in AnalyzeRequests :
       /\ inbox' = [inbox EXCEPT ![rid] = inp]
       /\ IF Validate(inp.job_description, inp.file, inp.resume_text) # 0
            THEN Deliver(rid, Rejected(400, <<>>, chroma, _client))
          ELSE IF UsesText(inp.resume_text) \/ ~inp.file.present
            THEN \E out \in {HandleAfterParse(inp, ParsedWithoutFile(inp.resume_text),
                                               chroma, _client, year)} :
                   Deliver(rid, [out EXCEPT !.log = <<"parse_resume">> \o @])
          ELSE /\ stage' = [stage EXCEPT ![rid] = "reading"]
               /\ call_log' = [call_log EXCEPT ![rid] = <<"parse_resume">>]
               /\ UNCHANGED <<score_log, outbox, chroma, _client>>
  /\ UNCHANGED <<scoreVars, suggest_args, suggestions, suggest_path,
                 suggest_calls, sem_args, sem_result, sem_calls, contextVars>>

\* parsers.py lines 49-87 and main.py lines 86-155: file.read() has returned
Resume(rid) ==
  /\ stage[rid] = "reading"
  /\ \E out \in {HandleAfterParse(inbox[rid],
                     parse_upload(inbox[rid].file, inbox[rid].env.docx_installed),
                     chroma, _client, year)} :
       Deliver(rid, out)
  /\ UNCHANGED inbox
  /\ UNCHANGED <<scoreVars, suggest_args, suggestions, suggest_path,
                 suggest_calls, sem_args, sem_result, sem_calls, contextVars>>

NextServe == \E rid \in Rids : Receive(rid) \/ Resume(rid)

SpecServe == Init /\ [][NextServe]_vars

(***************************************************************************)
(* Properties                                                              *)
(***************************************************************************)
Scored == pc \in {"scored", "rescored"}

\* the first call reached the except clause of compute_score: a keyword list
\* whose length is taken is None, or the similarity is not a number
CallRaised ==
  \/ args.found_keywords.type = "NoneType"
  \/ args.missing_keywords.type = "NoneType"
  \/ args.semantic_similarity.type = "NoneType"

\* v is a nearest integer to n / d (d > 0); on an exact tie both
\* neighbours are nearest
IsNearest(v, n, d) ==
  /\ 2 * (v * d - n) <= d
  /\ 2 * (n - v * d) <= d

\* sub-signals <<seniority, years, domain>> of every pair of string texts of
\* a direct call, in every year, computed once
SignalsMemo ==
  {<<k, <<seniority_bonus_of(k[1].val, k[2].val),
          _extract_years_bonus(k[1].val, k[2].val, k[3]),
          _compute_domain_alignment(k[1].val, k[2].val)>>>> :
     k \in {j \in JdTexts : j.type = "str"}
             \X {r \in ResumeTexts : r.type = "str"} \X Years}
SignalsAt(jd_text, resume_text, now_year) ==
  (CHOOSE e \in SignalsMemo : e[1] = <<jd_text, resume_text, now_year>>)[2]

\* C1: every call of compute_score returns an integer final score between 0
\* and 100, whatever the lists, the similarity and the texts, the error path
\* included; so does every score /analyze puts in a response.
C1_FinalScoreInRange ==
  /\ Scored => result.final_score \in 0..100
  /\ pc = "rescored" => again.final_score \in 0..100
  /\ (pc = "analyzed" /\ response.status = 200) => response.score \in 0..100

\* a call whose weighted score exceeds 1 (recall 2.0) and is capped at 100
C1_Witness ==
  /\ pc = "scored"
  /\ result.components.recall = 2000
  /\ result.final_score = 100

\* C2: every reported component lies in its documented range: recall,
\* precision and semantic in [0, 1], context in [-0.1, 0.1], for any three
\* keyword lists the caller supplies.
C2_ComponentsInRange ==
  Scored =>
    /\ result.components.recall \in 0..1000
    /\ result.components.precision \in 0..1000
    /\ result.components.semantic \in 0..1000
    /\ result.components.context \in (-100)..100

\* 100 * clamp01(0.40*recall + 0.15*precision + 0.35*semantic + 0.10*context)
\* of a components record, in thousandths
RecordWeighted(components) ==
  Clamp(0, 100000, 40 * components.recall + 15 * components.precision
                     + 35 * components.semantic + 10 * components.context)

\* the exact weighted score of the first call is no tie, so that no float
\* error takes part in its rounding
NoFloatTie ==
  RoundingDirections(args.jd_keywords, args.found_keywords,
                     args.missing_keywords, args.semantic_similarity,
                     args.jd_text, args.resume_text, call_year) = {FALSE}

\* C3 as stated: the final score is round(100 * clamp01(weighted sum)) of the
\* values of the returned record (checked on the calls whose rounding no
\* float error can influence).
C3_FinalFromRecord ==
  (Scored /\ NoFloatTie) =>
    IsNearest(result.final_score, RecordWeighted(result.components), 1000)

\* C3 amended: the final score is round(100 * weighted sum), capped to
\* [0, 100], of the unrounded recall |found|/|jd| (0 for an empty jd),
\* precision |found|/(|found|+|missing|) (0 for an empty pool), semantic
\* clamp(similarity, 0, 1) (1 for nan) and the context of the record; the
\* record holds these values rounded to three decimals, and the formula
\* applied to the record may give another score.
C3_FinalFromUnrounded ==
  (Scored /\ ~CallRaised) =>
    LET nj == Len(args.jd_keywords.val)
        nf == Len(args.found_keywords.val)
        nm == Len(args.missing_keywords.val)
        rd == IF nj > 0 THEN nj ELSE 1
        rn == IF nj > 0 THEN nf ELSE 0
        pd == IF nf + nm > 0 THEN nf + nm ELSE 1
        sim == args.semantic_similarity
        sem == IF sim.type = "nan" \/ sim.val > 10000 THEN 10000
               ELSE IF sim.val < 0 THEN 0 ELSE sim.val
        \* weighted sum times 100, over the denominator 10000 * rd * pd
        n == 400000 * rn * pd + 150000 * nf * rd
               + 35 * sem * rd * pd + 100 * result.components.context * rd * pd
        d == 10000 * rd * pd
    IN IsNearest(result.final_score, Clamp(0, 100 * d, n), d)

\* a call whose score (20) is not the one the record's rounded values give (19)
C3_Witness ==
  /\ pc = "scored"
  /\ ~CallRaised
  /\ result.final_score = 20
  /\ ~IsNearest(result.final_score, RecordWeighted(result.components), 1000)

\* C4 as stated: recall is 0 when jd_keywords is empty, 1 when
\* found_keywords = jd_keywords, and otherwise exactly |found| / |jd|
\* (checked on the calls that do not reach the except clause).
C4_RecallAsStated ==
  (Scored /\ ~CallRaised) =>
    LET jd == args.jd_keywords.val
        found == args.found_keywords.val
        recall == result.components.recall
    IN /\ jd = <<>> => recall = 0
       /\ found = jd => recall = 1000
       /\ (jd # <<>> /\ found # jd) => recall * Len(jd) = 1000 * Len(found)

\* C4 amended: in a call that does not reach the except clause the reported
\* recall is 0 when jd_keywords is empty (also when found_keywords is empty
\* too), 1 when found_keywords = jd_keywords is non-empty, and otherwise
\* |found| / |jd| rounded to three decimals.
C4_RecallRounded ==
  (Scored /\ ~CallRaised) =>
    LET jd == args.jd_keywords.val
        found == args.found_keywords.val
        recall == result.components.recall
    IN /\ jd = <<>> => recall = 0
       /\ (jd # <<>> /\ found = jd) => recall = 1000
       /\ jd # <<>> => IsNearest(recall, 1000 * Len(found), Len(jd))

\* one of three jd keywords found: recall is reported as 0.333
C4_Witness ==
  /\ pc = "scored"
  /\ ~CallRaised
  /\ Len(args.jd_keywords.val) = 3
  /\ Len(args.found_keywords.val) = 1
  /\ result.components.recall = 333

\* the number of positions of q that hold x
Count(x, q) == Cardinality({i \in DOMAIN q : q[i] = x})

\* q is an order-preserving sublist of a list p without repetitions
IsSublist(q, p) ==
  /\ \A i \in DOMAIN q : Count(q[i], p) = 1
  /\ \A i, k \in DOMAIN q :
       i < k => (CHOOSE a \in DOMAIN p : p[a] = q[i])
                  < (CHOOSE b \in DOMAIN p : p[b] = q[k])

\* C5: in every /analyze response found and missing are disjoint,
\* order-preserving sublists of the extracted jd keywords that hold every jd
\* keyword exactly once, so |found| + |missing| = |jd| and the reported
\* recall equals the reported precision (both 0 when nothing was extracted).
C5_WiringPartition ==
  (pc = "analyzed" /\ response.status = 200) =>
    LET jd == response.keywords.all_extracted_from_jd
        found == response.keywords.found
        missing == response.keywords.missing
    IN /\ IsSublist(found, jd)
       /\ IsSublist(missing, jd)
       /\ \A i \in DOMAIN jd : Count(jd[i], found) + Count(jd[i], missing) = 1
       /\ {found[i] : i \in DOMAIN found} \cap {missing[i] : i \in DOMAIN missing} = {}
       /\ Len(found) + Len(missing) = Len(jd)
       /\ response.components.recall = response.components.precision
       /\ jd = <<>> => response.components.recall = 0

\* a response with keywords on both sides, one of them matched in the resume
\* only through lowercasing
C5_Witness ==
  /\ pc = "analyzed"
  /\ response.status = 200
  /\ request.resume_text = PyStr("I know Python")
  /\ response.keywords.found = <<"python">>
  /\ Len(response.keywords.missing) = 2
  /\ response.components.recall = 333

\* C6: an error raised in the try body of compute_score (len() of a None
\* keyword list, min() with a None similarity) never reaches the caller: the
\* call returns the all-zero components record and the score 0.
C6_ErrorGivesZeroResult ==
  (Scored /\ CallRaised) =>
    /\ result.components = [recall |-> 0, precision |-> 0, semantic |-> 0,
                            context |-> 0]
    /\ result.final_score = 0

\* a call with a None similarity whose keyword lists alone would give a
\* recall of 1
C6_Witness ==
  /\ pc = "scored"
  /\ args.semantic_similarity = NoneNum
  /\ args.found_keywords = args.jd_keywords
  /\ Len(args.jd_keywords.val) > 0
  /\ result.final_score = 0
  /\ result.components.recall = 0

\* C7 as stated: two calls of compute_score with identical arguments return
\* identical components and final score, whenever they are made.
C7_SameArgsSameResult ==
  pc = "rescored" => again = result

\* the resume texts with an open-ended date range (<YYYY> - present|current)
OpenEndedResumes ==
  {r \in ResumeTexts :
     /\ r.type = "str"
     /\ LET ranges == FindAll(ReDateRange, Lower(r.val))
        IN \E k \in DOMAIN ranges : ranges[k].g2 = ""}

\* C7 amended: two calls of compute_score with identical arguments return
\* identical components and final score provided they run in the same
\* calendar year or resume_text holds no open-ended date range; besides its
\* arguments the result depends on the current calendar year, which the
\* years sub-signal reads from the clock.
C7_SameArgsSameYearSameResult ==
  (pc = "rescored"
     /\ (again_year = call_year \/ args.resume_text \notin OpenEndedResumes))
    => again = result

\* two calls in different years on a resume with a closed date range and a
\* JD that asks for years
C7_Witness ==
  /\ pc = "rescored"
  /\ again_year # call_year
  /\ args.resume_text = PyStr("Senior dev, led team, banking, 2019 - 2024")
  /\ args.jd_text = PyStr("Senior role, minimum 6 years")
  /\ ~CallRaised
  /\ again = result

\* both texts of the first call are strings
TextsAreStrings == args.jd_text.type = "str" /\ args.resume_text.type = "str"

\* C8 as stated: the context bonus equals seniority + years + domain for
\* every combination of sub-signal outcomes.
C8_ContextIsSum ==
  (Scored /\ ~CallRaised /\ TextsAreStrings) =>
    LET sig == SignalsAt(args.jd_text, args.resume_text, call_year)
    IN result.components.context = sig[1] + sig[2] + sig[3]

\* C8 amended: the context bonus is seniority + years + domain capped to
\* [-0.1, 0.1]: it equals the sum whenever the sum lies in that band, in
\* particular it equals the third sub-bonus when the other two contribute
\* 0.0, and it is 0.1 (-0.1) when the sum is above (below) the band.
C8_ContextIsCappedSum ==
  (Scored /\ ~CallRaised /\ TextsAreStrings) =>
    LET sig == SignalsAt(args.jd_text, args.resume_text, call_year)
        sum == sig[1] + sig[2] + sig[3]
        context == result.components.context
    IN /\ sum \in (-100)..100 => context = sum
       /\ sum > 100 => context = 100
       /\ sum < -100 => context = -100
       /\ \A i \in 1..3 :
            (\A k \in (1..3) \ {i} : sig[k] = 0) => context = sig[i]

\* a call whose sub-bonuses 0.08 + 0.02 + 0.02 are capped to 0.1
C8_Witness ==
  /\ pc = "scored"
  /\ ~CallRaised
  /\ TextsAreStrings
  /\ SignalsAt(args.jd_text, args.resume_text, call_year) = <<80, 20, 20>>
  /\ result.components.context = 100

\* the arguments of Scenario A
ScenarioA ==
  [jd_keywords |-> PyList(<<"python", "aws", "docker">>),
   found_keywords |-> PyList(<<"python">>),
   missing_keywords |-> PyList(<<"aws", "docker">>),
   semantic_similarity |-> PyFloat(5000),
   jd_text |-> PyStr("We build things"),
   resume_text |-> PyStr("I build things")]

\* C9 as stated: Scenario A reports recall 0.333, precision 0.333, semantic
\* 0.5, context 0.02 and the final score 31.
C9_ScenarioA31 ==
  (Scored /\ args = ScenarioA) =>
    /\ result.components = [recall |-> 333, precision |-> 333,
                            semantic |-> 500, context |-> 20]
    /\ result.final_score = 31

\* C9 amended: Scenario A reports recall 0.333, precision 0.333, semantic
\* 0.5, context 0.02 and the final score 36.
C9_ScenarioA36 ==
  (Scored /\ args = ScenarioA) =>
    /\ result.components = [recall |-> 333, precision |-> 333,
                            semantic |-> 500, context |-> 20]
    /\ result.final_score = 36

\* Scenario A has been scored
C9_Witness ==
  /\ pc = "scored"
  /\ args = ScenarioA
  /\ result.final_score = 36

\* C10: get_score_explanation returns "Score {score}%: " followed by exactly
\* one coverage clause (recall >= 0.8 Excellent, >= 0.6 Good, >= 0.4
\* Moderate, else Low), exactly one semantic clause (>= 0.7 strong, >= 0.5
\* moderate, else weak) and a third clause only for context > 0.05 or
\* context < -0.05, joined by ", " and closed by "."; a missing key counts
\* as 0.
C10_ExplanationMapping ==
  pc = "explained" =>
    LET c == explain_args.components
        recall == IF "recall" \in DOMAIN c THEN c.recall ELSE 0
        semantic == IF "semantic" \in DOMAIN c THEN c.semantic ELSE 0
        context == IF "context" \in DOMAIN c THEN c.context ELSE 0
        coverage == CASE recall >= 800 -> "Excellent"
                      [] recall >= 600 /\ recall < 800 -> "Good"
                      [] recall >= 400 /\ recall < 600 -> "Moderate"
                      [] recall < 400 -> "Low"
        alignment == CASE semantic >= 700 -> "strong"
                       [] semantic >= 500 /\ semantic < 700 -> "moderate"
                       [] semantic < 500 -> "weak"
        fit == CASE context > 50 -> ", good seniority/domain fit"
                 [] context < -50 -> ", seniority/domain mismatch"
                 [] context >= -50 /\ context <= 50 -> ""
    IN explanation =
         "Score " \o ToString(explain_args.score) \o "%: " \o coverage
           \o " keyword coverage, " \o alignment \o " semantic alignment"
           \o fit \o "."

\* the boundary values 0.8, 0.7 and 0.05: higher labels, no third clause
C10_Witness ==
  /\ pc = "explained"
  /\ explain_args = [components |-> [recall |-> 800, semantic |-> 700,
                                     context |-> 50],
                     score |-> 85]
  /\ explanation =
       "Score 85%: Excellent keyword coverage, strong semantic alignment."

Suggested == suggest_calls > 0

\* C11: every list generate_suggestions returns has between 3 and 5 items,
\* whether it was parsed from the service's reply or is the rule-based
\* fallback (service unavailable, empty or unparseable reply, raised error).
C11_ThreeToFive == Suggested => Len(suggestions) \in 3..5

FallbackPath == Suggested /\ suggest_path # "parsed"
IsIn(x, q) == \E i \in DOMAIN q : q[i] = x
\* the items of a list that are not one of the three closing suggestions
SpecificCount(q) ==
  Cardinality({i \in DOMAIN q : ~IsIn(q[i], ClosingSuggestions)})

\* C12 (as stated): the fallback list contains the suggestion of each of the
\* four keyword groups that has a member among the missing keywords, and
\* the generic closing suggestions about quantified impact and action verbs.
C12_FallbackAsStated ==
  FallbackPath =>
    /\ AnyMember(frontend_keywords, suggest_args.missing_keywords)
         => IsIn(FrontendSuggestion, suggestions)
    /\ AnyMember(backend_keywords, suggest_args.missing_keywords)
         => IsIn(BackendSuggestion, suggestions)
    /\ AnyMember(cloud_keywords, suggest_args.missing_keywords)
         => IsIn(CloudSuggestion, suggestions)
    /\ AnyMember(testing_keywords, suggest_args.missing_keywords)
         => IsIn(TestingSuggestion, suggestions)
    /\ IsIn(QuantifySuggestion, suggestions)
    /\ IsIn(ActionVerbsSuggestion, suggestions)

\* what holds of a fallback list returned for the list missing
FallbackShape(missing, out) ==
  /\ Len(out) \in 4..5
  /\ out[1] = SetupSuggestion
  /\ IsIn(FrontendSuggestion, out) <=> AnyMember(frontend_keywords, Take(missing, 8))
  /\ IsIn(BackendSuggestion, out) <=> AnyMember(backend_keywords, Take(missing, 8))
  /\ IsIn(CloudSuggestion, out) <=> AnyMember(cloud_keywords, Take(missing, 8))
  /\ IsIn(TestingSuggestion, out) <=> AnyMember(testing_keywords, Take(missing, 8))
  /\ IsIn(QuantifySuggestion, out) <=> SpecificCount(out) <= 4
  /\ IsIn(ActionVerbsSuggestion, out) <=> SpecificCount(out) <= 3
  /\ IsIn(AlignSuggestion, out) <=> SpecificCount(out) <= 2

\* C12: a fallback list depends on the missing keywords alone (two fallback
\* calls with the same list return the same suggestions, whatever the client
\* and the reply were); it starts with the setup notice, holds a group's
\* suggestion exactly when one of the first eight missing keywords is in the
\* group, and has four or five items, so that a closing suggestion is present
\* exactly when the five-item limit leaves room for it.
C12_FallbackByFirstEight ==
  [][(suggest_calls' > 0 /\ suggest_path' # "parsed") =>
       /\ FallbackShape(suggest_args'.missing_keywords, suggestions')
       /\ (FallbackPath /\ suggest_args'.missing_keywords = suggest_args.missing_keywords)
            => suggestions' = suggestions]_suggest_calls

\* a fallback call whose ninth missing keyword is the only member of a group,
\* made after an earlier call
C12_Witness ==
  /\ FallbackPath
  /\ suggest_calls = 2
  /\ suggest_args.missing_keywords = LongMissing("docker")
  /\ ~IsIn(CloudSuggestion, suggestions)
  /\ IsIn(AlignSuggestion, suggestions)

Compared == sem_calls > 0

\* the conditions under which the comparison cannot be made: a collaborator
\* is not loaded, a text has no chunks, or creating or filling the
\* collection raises
CannotCompare ==
  \/ ~sem_args.backend.available
  \/ ChunksAt(sem_args.jd_text) = <<>>
  \/ ChunksAt(sem_args.resume_text) = <<>>
  \/ sem_args.backend.fault \in {"create", "add"}
  \/ (sem_args.backend.fault = "delete" /\ sem_args.found_collection)

\* C18: every result of semantic_compare has its average similarity in
\* [0, 1] and at most 20 matches, sorted by non-increasing similarity, each
\* with a similarity in [0, 1], on the distance path and on the
\* direct-similarity path; it is the zero result (0.0, no matches) when the
\* model or the store is unavailable, a text has no chunks or the comparison
\* raises.
C18_ResultInRange ==
  Compared =>
    /\ sem_result.avg_similarity[1] >= 0
    /\ sem_result.avg_similarity[1] <= sem_result.avg_similarity[2]
    /\ Len(sem_result.matches) <= 20
    /\ \A k \in 1..(Len(sem_result.matches) - 1) :
         sem_result.matches[k].similarity >= sem_result.matches[k + 1].similarity
    /\ \A k \in DOMAIN sem_result.matches :
         sem_result.matches[k].similarity \in 0..1000
    /\ CannotCompare => sem_result = ZeroResult

ContextCalled == context_calls > 0

\* C19: the seniority sub-bonus is decided by the four cue flags alone,
\* whatever the texts: for a junior-only JD it is +0.08 with a junior-only
\* resume, else -0.05 with a senior resume, else +0.02; for a senior-only JD
\* it is +0.08 with a senior resume (junior cues or not), else -0.08 with a
\* junior resume, else 0.0; for a JD matching both cue sets or neither it is
\* +0.02; and the JD "senior" with the resume "senior, led team" gives +0.08.
C19_SeniorityTable ==
  ContextCalled =>
    LET l == context_locals
        jd_junior_only == l.jd_is_junior /\ ~l.jd_is_senior
        jd_senior_only == l.jd_is_senior /\ ~l.jd_is_junior
        bonus == l.seniority_bonus
    IN /\ l.jd_is_junior = AnyIn(junior_indicators_jd, Lower(context_args.jd_text))
       /\ l.jd_is_senior = AnyIn(senior_indicators_jd, Lower(context_args.jd_text))
       /\ l.resume_is_junior
            = AnyIn(junior_indicators_resume, Lower(context_args.resume_text))
       /\ l.resume_is_senior
            = AnyIn(senior_indicators_resume, Lower(context_args.resume_text))
       /\ (jd_junior_only /\ l.resume_is_junior /\ ~l.resume_is_senior) => bonus = 80
       /\ (jd_junior_only /\ l.resume_is_senior) => bonus = -50
       /\ (jd_junior_only /\ ~l.resume_is_junior /\ ~l.resume_is_senior) => bonus = 20
       /\ (jd_senior_only /\ l.resume_is_senior) => bonus = 80
       /\ (jd_senior_only /\ ~l.resume_is_senior /\ l.resume_is_junior) => bonus = -80
       /\ (jd_senior_only /\ ~l.resume_is_senior /\ ~l.resume_is_junior) => bonus = 0
       /\ (l.jd_is_junior = l.jd_is_senior) => bonus = 20
       /\ (context_args.jd_text = "senior"
             /\ context_args.resume_text = "senior, led team") => bonus = 80

\* a senior-only JD met by a resume with both junior and senior cues
C19_Witness ==
  /\ ContextCalled
  /\ context_locals.jd_is_senior /\ ~context_locals.jd_is_junior
  /\ context_locals.resume_is_senior /\ context_locals.resume_is_junior
  /\ context_locals.seniority_bonus = 80

\* the largest of a non-empty list of year counts
MaxOf(counts) ==
  CHOOSE m \in {counts[k] : k \in DOMAIN counts} :
    \A k \in DOMAIN counts : counts[k] <= m

\* C20: the years sub-bonus is 0.0 when the JD or the resume yields no year
\* count; otherwise it is +0.02 if resumeMax >= jdMax, +0.01 if
\* 0.7 * jdMax <= resumeMax < jdMax and -0.02 if resumeMax < 0.7 * jdMax.
C20_YearsBonus ==
  ContextCalled =>
    LET l == context_locals
        bonus == l.years_bonus
    IN /\ bonus \in {0, 20, 10, -20}
       /\ (l.jd_years = <<>> \/ l.resume_years = <<>>) => bonus = 0
       /\ (l.jd_years # <<>> /\ l.resume_years # <<>>) =>
            LET jdMax == MaxOf(l.jd_years)
                resumeMax == MaxOf(l.resume_years)
            IN /\ resumeMax >= jdMax => bonus = 20
               /\ (7 * jdMax <= 10 * resumeMax /\ resumeMax < jdMax) => bonus = 10
               /\ 10 * resumeMax < 7 * jdMax => bonus = -20

\* a resume with exactly 0.7 times the years the JD asks for
C20_Witness ==
  /\ ContextCalled
  /\ context_locals.jd_years # <<>>
  /\ context_locals.resume_years # <<>>
  /\ 10 * MaxOf(context_locals.resume_years) = 7 * MaxOf(context_locals.jd_years)
  /\ context_locals.years_bonus = 10

Served(rid) == stage[rid] = "done"
Succeeded(rid) == Served(rid) /\ outbox[rid].status = 200

\* the request has no resume text at all, or no job description beyond
\* whitespace
LacksInput(inp) ==
  \/ Len(Strip(inp.job_description)) = 0
  \/ ~inp.file.present /\ (inp.resume_text.type # "str" \/ inp.resume_text.val = "")

\* C13: a request whose job description is empty or whitespace-only, or
\* that has neither a file nor resume text, is answered with HTTP 400 in the
\* step that receives it, before parse_resume, extract_keywords,
\* semantic_compare, compute_score or generate_suggestions is called; it
\* never gets a score.
C13_RejectedBeforeWork ==
  \A rid \in Rids :
    (stage[rid] # "new" /\ LacksInput(inbox[rid])) =>
      /\ Served(rid)
      /\ outbox[rid] = [status |-> 400]
      /\ call_log[rid] = <<>>
      /\ score_log[rid] = <<>>

\* a request with a file and a whitespace-only job description was rejected
\* while the other request was served in full
C13_Witness ==
  \E rid \in Rids, other \in Rids :
    /\ Served(rid)
    /\ inbox[rid].file.present
    /\ inbox[rid].job_description = ""
    /\ outbox[rid].status = 400
    /\ Succeeded(other)

\* C14 as stated: a request that carries a file of more than 4,000,000
\* bytes is rejected with HTTP 413 and gets no analysis result; a file of at
\* most 4,000,000 bytes is never rejected for its size.
C14_SizeLimit ==
  \A rid \in Rids :
    (Served(rid) /\ inbox[rid].file.present) =>
      /\ inbox[rid].file.size > 4000000 =>
           (outbox[rid].status = 413 /\ score_log[rid] = <<>>)
      /\ inbox[rid].file.size <= 4000000 => outbox[rid].status # 413

\* the handler read the file of the request: the request passed validation
\* and has no resume text beyond whitespace
FileRead(rid) ==
  /\ Served(rid)
  /\ inbox[rid].file.present
  /\ Len(Strip(inbox[rid].job_description)) > 0
  /\ inbox[rid].resume_text.type = "str" => Len(Strip(inbox[rid].resume_text.val)) = 0

\* C14 amended: a request whose file is read (it has a job description
\* beyond whitespace and no resume text beyond whitespace) is rejected with
\* HTTP 413 and gets no analysis result when the file has more than
\* 4,000,000 bytes, and no file of at most 4,000,000 bytes is rejected for
\* its size; a file that comes with a blank job description is answered
\* with 400, and a file that comes with resume text is not read: the text is
\* analysed whatever the size of the file.
C14_SizeLimitOfFilesRead ==
  \A rid \in Rids :
    (Served(rid) /\ inbox[rid].file.present) =>
      /\ (FileRead(rid) /\ inbox[rid].file.size > 4000000) =>
           /\ outbox[rid] = [status |-> 413]
           /\ score_log[rid] = <<>>
           /\ call_log[rid] = <<"parse_resume">>
      /\ inbox[rid].file.size <= 4000000 => outbox[rid].status # 413
      /\ Len(Strip(inbox[rid].job_description)) = 0 => outbox[rid].status = 400
      /\ (~FileRead(rid) /\ Len(Strip(inbox[rid].job_description)) > 0) =>
           outbox[rid].status # 413

\* a file of exactly 4,000,000 bytes was analysed and one of 4,000,001
\* bytes was rejected
C14_Witness ==
  \E rid \in Rids, other \in Rids :
    /\ FileRead(rid) /\ inbox[rid].file.size = 4000000 /\ Succeeded(rid)
    /\ FileRead(other) /\ inbox[other].file.size = 4000001
    /\ outbox[other].status = 413

\* C15: no request ends in a 5xx response, and a request that passed
\* validation and parsing gets a complete successful result, with similarity
\* 0.0 and no matches when the semantic backend is unavailable and the
\* rule-based suggestions when the language model is.
C15_OnlyClientErrors ==
  \A rid \in Rids :
    Served(rid) =>
      /\ outbox[rid].status \in {200, 400, 413, 415}
      /\ Len(call_log[rid]) > 1 => outbox[rid].status = 200
      /\ (Succeeded(rid) /\ ~inbox[rid].env.backend.available) =>
           /\ outbox[rid].components.semantic = 0
           /\ outbox[rid].semantic_matches = <<>>
      /\ (Succeeded(rid) /\ inbox[rid].env.reply.kind = "raise") =>
           outbox[rid].suggestions = FallbackAt(outbox[rid].keywords.missing)

\* where a call stands in the log of a request (0: not called)
PlaceOf(name, log) ==
  IF \E i \in DOMAIN log : log[i] = name
    THEN CHOOSE i \in DOMAIN log : log[i] = name
    ELSE 0

\* C16: a request that passes validation and parsing calls compute_score
\* exactly once, after extract_keywords and semantic_compare have returned,
\* and its response carries the score and the components of that call as
\* returned; a request that fails gets no score.
C16_ScoredOnce ==
  \A rid \in Rids :
    /\ Succeeded(rid) =>
         /\ Cardinality({i \in DOMAIN call_log[rid] :
                           call_log[rid][i] = "compute_score"}) = 1
         /\ Len(score_log[rid]) = 1
         /\ PlaceOf("extract_keywords", call_log[rid]) \in
              1..(PlaceOf("compute_score", call_log[rid]) - 1)
         /\ PlaceOf("semantic_compare", call_log[rid]) \in
              1..(PlaceOf("compute_score", call_log[rid]) - 1)
         /\ outbox[rid].score = score_log[rid][1].final_score
         /\ outbox[rid].components = score_log[rid][1].components
    /\ (Served(rid) /\ ~Succeeded(rid)) => score_log[rid] = <<>>

\* a LaTeX upload scored above zero, annotated after the score was taken
C16_Witness ==
  \E rid \in Rids :
    /\ Succeeded(rid)
    /\ outbox[rid].score > 0
    /\ outbox[rid].latex_annotated # <<>>
    /\ PlaceOf("insert_suggestions_into_latex", call_log[rid])
         > PlaceOf("compute_score", call_log[rid])

\* C17: whatever the other request does and whenever, a served request has
\* the status, the score, the components and the semantic matches it gets
\* when it is the only request of a fresh process.
C17_AsIfAlone ==
  \A rid \in Rids :
    Served(rid) =>
      \E alone \in {Handle(inbox[rid], NoCollection, None, year).response} :
        /\ outbox[rid].status = alone.status
        /\ outbox[rid].status = 200 =>
             /\ outbox[rid].score = alone.score
             /\ outbox[rid].components = alone.components
             /\ outbox[rid].semantic_matches = alone.semantic_matches

\* the date range of the resume at place k: its start, its end (the current
\* year when open-ended) and whether it passes the test of the claim
RangeStart(k) == ParseInt(context_locals.date_ranges[k].g1)
RangeEnd(k) ==
  IF context_locals.date_ranges[k].g2 = "" THEN context_args.now_year
  ELSE ParseInt(context_locals.date_ranges[k].g2)
RangeCounts(k) == RangeStart(k) > 1990 /\ RangeEnd(k) > RangeStart(k)

\* C21: a resume date range contributes the span end - start to the resume's
\* year counts if and only if start > 1990 and end > start, end being the
\* current calendar year for an open-ended range; the year counts are the
\* explicit mentions followed by one span per contributing range, in order
\* (ranges failing the test contribute nothing and spans are not summed), and
\* the sub-bonus compares only the maximum of them with the JD's maximum.
\* A resume with "2019 - present" evaluated in 2024 against a JD whose only
\* requirement is 5 years has the span 5 and the years sub-bonus +0.02.
C21_DateRangeSpans ==
  ContextCalled =>
    LET l == context_locals
        ranges == DOMAIN l.date_ranges
        counting == {k \in ranges : RangeCounts(k)}
        placeOf(k) == Len(l.resume_mentions)
                        + Cardinality({j \in counting : j <= k})
    IN /\ Len(l.resume_years) = Len(l.resume_mentions) + Cardinality(counting)
       /\ SubSeq(l.resume_years, 1, Len(l.resume_mentions)) = l.resume_mentions
       /\ \A k \in counting :
            l.resume_years[placeOf(k)] = RangeEnd(k) - RangeStart(k)
       /\ (l.jd_years # <<>> /\ l.resume_years # <<>>) =>
            LET spans == {RangeEnd(k) - RangeStart(k) : k \in counting}
                mentions == {l.resume_mentions[i] : i \in DOMAIN l.resume_mentions}
                best == CHOOSE n \in spans \cup mentions :
                          \A o \in spans \cup mentions : o <= n
                asked == MaxOf(l.jd_years)
            IN l.years_bonus = IF best >= asked THEN 20
                               ELSE IF 10 * best >= 7 * asked THEN 10
                               ELSE -20
       /\ (/\ context_args.now_year = 2024
           /\ l.jd_years = <<5>>
           /\ \E k \in ranges : /\ l.date_ranges[k].g1 = "2019"
                                 /\ l.date_ranges[k].g2 = "")
            => /\ \E i \in DOMAIN l.resume_years : l.resume_years[i] = 5
               /\ l.years_bonus = 20

\* a resume with one date range that contributes and one that does not,
\* scored against a JD that asks for years
C21_Witness ==
  /\ ContextCalled
  /\ context_locals.jd_years # <<>>
  /\ \E k \in DOMAIN context_locals.date_ranges : RangeCounts(k)
  /\ \E k \in DOMAIN context_locals.date_ranges : ~RangeCounts(k)

\* C22: with JD-domains and resume-domains the sets of the eight fixed
\* domains present in each text, the domain sub-bonus is 0.0 if JD-domains is
\* empty whatever the resume contains, +0.02 if the two sets share at least
\* one domain however many, and -0.01 if JD-domains is non-empty and the sets
\* are disjoint, an empty resume-domains included; no other value is returned.
C22_DomainBonus ==
  ContextCalled =>
    LET l == context_locals
        shared == l.jd_domains \cap l.resume_domains
    IN /\ Len(domain_keywords) = 8
       /\ l.jd_domains \subseteq DOMAIN domain_keywords
       /\ l.resume_domains \subseteq DOMAIN domain_keywords
       /\ l.domain_bonus \in {0, 20, -10}
       /\ l.jd_domains = {} => l.domain_bonus = 0
       /\ shared # {} => l.domain_bonus = 20
       /\ (l.jd_domains # {} /\ shared = {}) => l.domain_bonus = -10

\* a JD that names domains scored against a resume that names none
C22_Witness ==
  /\ ContextCalled
  /\ context_locals.jd_domains # {}
  /\ context_locals.resume_domains = {}
  /\ context_locals.domain_bonus = -10

\* a call of compute_score has returned, and the exceptions raised inside
\* its context calculator
ScoredRaising == ContextCalled /\ pc = "scored"
SomeRaised ==
  context_args.raised.years \/ context_args.raised.domain
    \/ context_args.raised.body

\* C23: an exception inside one context sub-signal is absorbed as 0.0 for
\* that sub-signal only: when the years (or the domain) computation fails and
\* the body of the calculator does not, the context bonus is
\* clamp(seniority + other sub-bonus + 0.0, -0.1, 0.1); and an exception
\* anywhere in the context calculator never makes compute_score return its
\* all-zero failure result: recall, precision and semantic are reported as
\* without the exception and the final score is their weighted sum with the
\* context the calculator returned.
C23_FailureAbsorbed ==
  ScoredRaising =>
    LET l == context_locals
        raised == context_args.raised
        clean == ContextLocalsAt(context_args.jd_text, context_args.resume_text,
                                 context_args.now_year)
        others == ScoreWithContext(args.jd_keywords, args.found_keywords,
                                   args.missing_keywords,
                                   args.semantic_similarity, clean.returned,
                                   FALSE).components
    IN /\ (raised.years /\ ~raised.body) =>
            l.returned = Clamp(-100, 100,
                               clean.seniority_bonus
                                 + (IF raised.domain THEN 0 ELSE clean.domain_bonus)
                                 + 0)
       /\ (raised.domain /\ ~raised.body) =>
            l.returned = Clamp(-100, 100,
                               clean.seniority_bonus
                                 + (IF raised.years THEN 0 ELSE clean.years_bonus)
                                 + 0)
       /\ raised.body => l.returned = 0
       /\ (SomeRaised /\ ~ScoreRaises(args.jd_keywords, args.found_keywords,
                                      args.missing_keywords,
                                      args.semantic_similarity)) =>
            /\ result.components.recall = others.recall
            /\ result.components.precision = others.precision
            /\ result.components.semantic = others.semantic
            /\ result.components.context = l.returned
            /\ result.final_score =
                 FinalScoreOf(
                   WeightedScore100(
                     RecallOf(args.jd_keywords, args.found_keywords),
                     PrecisionOf(args.found_keywords, args.missing_keywords),
                     SemanticOf(args.semantic_similarity), l.returned),
                   float_up)
            /\ (others.recall # 0 \/ others.precision # 0 \/ others.semantic # 0)
                 => result # SafeDefaults

\* the years computation alone fails on texts whose seniority, years and
\* domain sub-bonuses are all non-zero, in a call that finds keywords
C23_Witness ==
  /\ ScoredRaising
  /\ context_args.raised = [years |-> TRUE, domain |-> FALSE, body |-> FALSE]
  /\ ContextLocalsAt(context_args.jd_text, context_args.resume_text,
                     context_args.now_year).years_bonus # 0
  /\ context_locals.years_bonus = 0
  /\ context_locals.seniority_bonus # 0
  /\ context_locals.domain_bonus # 0
  /\ context_locals.returned # 0
  /\ result.components.recall > 0
  /\ result.final_score > 0
====
